---- MODULE Spec2Model ----
(***************************************************************************)
(* Gizmo: a small language whose scripts build monochrome pixel frames and *)
(* animations.  The repository holds two builds of the interpreter:        *)
(*   "full"  src/interpreter_modules/*  (events, three generators, scoped  *)
(*           Environment, AnimationState driven by update)                 *)
(*   "lean"  src/src/*                  (one global Environment, assign-   *)
(*           ment, pattern with return expression, frame_duration_ms)      *)
(* The model runs one interpreter of one build on one input program.       *)
(***************************************************************************)
EXTENDS Integers, Sequences, FiniteSets, TLC

\* ------------------------------------------------------------------ bounds
\* the host clock stops being advanced once it has reached MaxTime
MaxTime == 300
\* number of handle_click_event / handle_idle_event calls made by the host
MaxDispatch == 3
\* nesting depth after which the recursive-descent parser is cut off
MaxDepth == 12

\* ------------------------------------------------------------------ f64
\* An f64 is modelled as a reduced fraction p/q with q > 0; q = 0 is NaN.
\* Every number of the model is a small rational, for which f64 arithmetic
\* is exact enough that the comparisons below agree with the hardware.
AbsInt(a) == IF a < 0 THEN -a ELSE a

RECURSIVE Gcd(_, _)
Gcd(a, b) == IF b = 0 THEN a ELSE Gcd(b, a % b)

NaN == [p |-> 0, q |-> 0]

Rat(p, q) ==
    IF q = 0 THEN NaN
    ELSE LET g == Gcd(AbsInt(p), AbsInt(q))
             s == IF q < 0 THEN -1 ELSE 1
         IN [p |-> s * (p \div g), q |-> s * (q \div g)]

F64(n) == [p |-> n, q |-> 1]

IsNaN(x) == x.q = 0

\* x == 0.0
IsZero(x) == x.q # 0 /\ x.p = 0

FNeg(x) == [p |-> -x.p, q |-> x.q]

FAdd(a, b) == IF IsNaN(a) \/ IsNaN(b) THEN NaN ELSE Rat(a.p * b.q + b.p * a.q, a.q * b.q)

FSub(a, b) == FAdd(a, FNeg(b))

FMul(a, b) == IF IsNaN(a) \/ IsNaN(b) THEN NaN ELSE Rat(a.p * b.p, a.q * b.q)

\* a / b.  Both interpreters guard `/` against a zero divisor, so the
\* infinite quotients of IEEE-754 never arise; 0/0 is NaN.
FDiv(a, b) == IF IsNaN(a) \/ IsNaN(b) THEN NaN ELSE Rat(a.p * b.q, a.q * b.p)

\* integer part of a finite x, rounded toward zero
TruncF(x) == IF x.p < 0 THEN -((-x.p) \div x.q) ELSE x.p \div x.q

\* a % b on f64 (fmod): the remainder has the sign of the dividend, and any
\* remainder by zero is NaN
FRem(a, b) ==
    IF IsNaN(a) \/ IsNaN(b) \/ IsZero(b) THEN NaN
    ELSE FSub(a, FMul(b, F64(TruncF(FDiv(a, b)))))

FLt(a, b) == ~IsNaN(a) /\ ~IsNaN(b) /\ a.p * b.q < b.p * a.q

FLe(a, b) == ~IsNaN(a) /\ ~IsNaN(b) /\ a.p * b.q <= b.p * a.q

FAbs(x) == [p |-> AbsInt(x.p), q |-> x.q]

FFloor(x) == IF IsNaN(x) THEN NaN ELSE F64(x.p \div x.q)

FCeil(x) == IF IsNaN(x) THEN NaN ELSE F64(-((-x.p) \div x.q))

RECURSIVE FPowNat(_, _)
FPowNat(a, n) == IF n = 0 THEN F64(1) ELSE FMul(a, FPowNat(a, n - 1))

\* a.powf(b) for a whole exponent b (the exponents the modelled programs use)
FPow(a, b) ==
    IF IsNaN(b) THEN NaN
    ELSE IF b.p >= 0 THEN FPowNat(a, b.p)
    ELSE FDiv(F64(1), FPowNat(a, -b.p))

\* `x as usize` and `x as u64`: truncation toward zero, saturating, NaN -> 0
CastUnsigned(x) == IF IsNaN(x) \/ x.p < 0 THEN 0 ELSE x.p \div x.q

\* `x as i32`: truncation toward zero, NaN -> 0
CastI32(x) == IF IsNaN(x) THEN 0 ELSE TruncF(x)

\* ------------------------------------------------------------------ results
\* Result<T> of a function that does not touch the interpreter
POk(v) == [ok |-> TRUE, v |-> v, err |-> "None"]

PErr(e) == [ok |-> FALSE, v |-> [t |-> "Unit"], err |-> e]

\* Result<T> of a method of the interpreter, with the interpreter it leaves
ROk(st, v) == [st |-> st, ok |-> TRUE, v |-> v, err |-> "None"]

RErr(st, e) == [st |-> st, ok |-> FALSE, v |-> [t |-> "Unit"], err |-> e]

\* Option<Value>::None
NoneV == [t |-> "None"]

IsSome(v) == v.t # "None"

\* ------------------------------------------------------------------ maps
EmptyMap == [k \in {} |-> NoneV]

Put(m, k, v) == [x \in (DOMAIN m) \cup {k} |-> IF x = k THEN v ELSE m[x]]

\* ------------------------------------------------------------------ Value
Value_Number(n) == [t |-> "Number", n |-> n]

Value_String(s) == [t |-> "String", s |-> s]

Value_Boolean(b) == [t |-> "Boolean", b |-> b]

Value_Frame(f) == [t |-> "Frame", f |-> f]

Value_Frames(fs) == [t |-> "Frames", fs |-> fs]

is_truthy(v) ==
    CASE v.t = "Boolean" -> v.b
      [] v.t = "Number" -> ~IsZero(v.n)
      [] v.t = "String" -> v.s # ""
      [] v.t = "Frame" -> TRUE
      [] v.t = "Frames" -> Len(v.fs) > 0

\* str::parse::<f64> on the string literals the modelled scripts contain
ParseF64(s) ==
    CASE s = "0" -> POk(F64(0))
      [] s = "1" -> POk(F64(1))
      [] s = "2" -> POk(F64(2))
      [] OTHER -> PErr("TypeError")

to_number(v) ==
    CASE v.t = "Number" -> POk(v.n)
      [] v.t = "Boolean" -> POk(IF v.b THEN F64(1) ELSE F64(0))
      [] v.t = "String" -> ParseF64(v.s)
      [] OTHER -> PErr("TypeError")

\* ------------------------------------------------------------------ Frame
\* pixels[r + 1][c + 1] is the pixel the code calls pixels[r][c]
Frame_new(width, height) ==
    [width |-> width, height |-> height,
     pixels |-> [r \in 1..height |-> [c \in 1..width |-> FALSE]]]

\* Frame::from_array as it would be if the rows were not compared
Frame_from_array_unchecked(data) ==
    IF Len(data) = 0 THEN PErr("InvalidFrameSize")
    ELSE POk([width |-> Len(data[1]), height |-> Len(data), pixels |-> data])

Frame_from_array(data) ==
    IF Len(data) = 0 THEN PErr("InvalidFrameSize")
    ELSE IF \E i \in 1..Len(data) : Len(data[i]) # Len(data[1])
         THEN PErr("InvalidFrameSize")
         ELSE POk([width |-> Len(data[1]), height |-> Len(data), pixels |-> data])

Frame_get_pixel(f, row, col) ==
    IF row >= f.height \/ col >= f.width THEN PErr("IndexError")
    ELSE POk(f.pixels[row + 1][col + 1])

Frame_set_pixel(f, row, col, value) ==
    IF row >= f.height \/ col >= f.width THEN PErr("IndexError")
    ELSE POk([f EXCEPT !.pixels[row + 1][col + 1] = value])

\* ------------------------------------------------------------------ ast
Statement_VariableDeclaration(var_type, name, value) ==
    [kind |-> "VariableDeclaration", var_type |-> var_type, name |-> name, value |-> value]

Statement_ExpressionStatement(expr) == [kind |-> "ExpressionStatement", expr |-> expr]

\* elsif_blocks is a sequence of [condition, body]; else_block is <<>> for
\* None and <<body>> for Some(body)
Statement_IfStatement(condition, then_block, elsif_blocks, else_block) ==
    [kind |-> "IfStatement", condition |-> condition, then_block |-> then_block,
     elsif_blocks |-> elsif_blocks, else_block |-> else_block]

Statement_RepeatStatement(times, body) ==
    [kind |-> "RepeatStatement", times |-> times, body |-> body]

Statement_WhenStatement(event, body) ==
    [kind |-> "WhenStatement", event |-> event, body |-> body]

Statement_ReturnStatement(expr) == [kind |-> "ReturnStatement", expr |-> expr]

Event_Clicked == [kind |-> "Clicked"]

Event_Idle(time) == [kind |-> "Idle", time |-> time]

Expression_Number(n) == [kind |-> "Number", n |-> n]

Expression_String(s) == [kind |-> "String", s |-> s]

Expression_Boolean(b) == [kind |-> "Boolean", b |-> b]

Expression_Identifier(name) == [kind |-> "Identifier", name |-> name]

Expression_Array(elements) == [kind |-> "Array", elements |-> elements]

Expression_FunctionCall(name, args) == [kind |-> "FunctionCall", name |-> name, args |-> args]

Expression_Binary(left, operator, right) ==
    [kind |-> "Binary", left |-> left, operator |-> operator, right |-> right]

Expression_Unary(operator, operand) ==
    [kind |-> "Unary", operator |-> operator, operand |-> operand]

Expression_Index(object, index) == [kind |-> "Index", object |-> object, index |-> index]

Expression_PatternGenerator(width, height, body) ==
    [kind |-> "PatternGenerator", width |-> width, height |-> height, body |-> body]

Expression_AnimatedGenerator(width, height, time_var, body) ==
    [kind |-> "AnimatedGenerator", width |-> width, height |-> height,
     time_var |-> time_var, body |-> body]

Expression_CellularGenerator(width, height, prev_var, body) ==
    [kind |-> "CellularGenerator", width |-> width, height |-> height,
     prev_var |-> prev_var, body |-> body]

Expression_Conditional(condition, then_expr, else_expr) ==
    [kind |-> "Conditional", condition |-> condition, then_expr |-> then_expr,
     else_expr |-> else_expr]

\* ------------------------------------------------------------------ Environment (full)
\* An Environment is the sequence of its scopes, innermost first: the head is
\* `variables`, the tail is `parent`.
Environment_new == <<EmptyMap>>

Environment_new_enclosed(parent) == <<EmptyMap>> \o parent

Environment_define(env, name, value) == [env EXCEPT ![1] = Put(@, name, value)]

RECURSIVE Environment_get(_, _)
Environment_get(env, name) ==
    IF Len(env) = 0 THEN PErr("UndefinedVariable")
    ELSE IF name \in DOMAIN Head(env) THEN POk(Head(env)[name])
    ELSE Environment_get(Tail(env), name)

\* Environment::assign as it would be if it always wrote to the current scope
Environment_assign_here(env, name, value) == POk(Environment_define(env, name, value))

\* the environment `assign` leaves, or the failure (nothing is changed then)
RECURSIVE Environment_assign(_, _, _)
Environment_assign(env, name, value) ==
    IF Len(env) = 0 THEN PErr("UndefinedVariable")
    ELSE IF name \in DOMAIN Head(env)
    THEN POk(<<Put(Head(env), name, value)>> \o Tail(env))
    ELSE LET parent == Environment_assign(Tail(env), name, value)
         IN IF parent.ok THEN POk(<<Head(env)>> \o parent.v) ELSE parent

\* ------------------------------------------------------------------ AnimationState
\* Option<AnimationState>::None
AnimationState_None == [present |-> FALSE]

AnimationState_new(frames, loop_animation, frame_duration) ==
    [present |-> TRUE, current_frame |-> 0, frames |-> frames,
     loop_animation |-> loop_animation, frame_duration |-> frame_duration,
     last_frame_time |-> 0]

\* AnimationState::update as it would be if it advanced on every call
AnimationState_update_untimed(anim, current_time) ==
    IF Len(anim.frames) = 0 THEN anim
    ELSE LET next == anim.current_frame + 1
         IN [anim EXCEPT !.last_frame_time = current_time,
                         !.current_frame =
                             IF next >= Len(anim.frames)
                             THEN (IF anim.loop_animation THEN 0 ELSE Len(anim.frames) - 1)
                             ELSE next]

AnimationState_update(anim, current_time) ==
    IF Len(anim.frames) = 0 THEN anim
    ELSE IF current_time - anim.last_frame_time >= anim.frame_duration
         THEN LET next == anim.current_frame + 1
              IN [anim EXCEPT !.last_frame_time = current_time,
                              !.current_frame =
                                  IF next >= Len(anim.frames)
                                  THEN (IF anim.loop_animation THEN 0 ELSE Len(anim.frames) - 1)
                                  ELSE next]
         ELSE anim

\* ------------------------------------------------------------------ Frame operations
Frame_flip(f) ==
    [f EXCEPT !.pixels = [r \in 1..f.height |-> [c \in 1..f.width |-> ~f.pixels[r][c]]]]

\* rotate_90 as it would be if the new frame kept the width and height of
\* the old one
Frame_rotate_90_unswapped(f) ==
    [width |-> f.width, height |-> f.height,
     pixels |-> [r \in 1..f.width |-> [c \in 1..f.height |-> f.pixels[f.height + 1 - c][r]]]]

\* rotate_90 as it would be if it wrote new_pixels[col][row], a transposition
Frame_rotate_90_transposed(f) ==
    [width |-> f.height, height |-> f.width,
     pixels |-> [r \in 1..f.width |-> [c \in 1..f.height |-> f.pixels[c][r]]]]

\* new_pixels[col][height - 1 - row] = pixels[row][col]
Frame_rotate_90(f) ==
    [width |-> f.height, height |-> f.width,
     pixels |-> [r \in 1..f.width |-> [c \in 1..f.height |-> f.pixels[f.height + 1 - c][r]]]]

\* count_neighbors as it would be if the centre cell were not skipped
Frame_count_neighbors_all(f, row, col) ==
    Cardinality({d \in (-1..1) \X (-1..1) :
        /\ row + d[1] >= 0 /\ row + d[1] < f.height
        /\ col + d[2] >= 0 /\ col + d[2] < f.width
        /\ f.pixels[row + d[1] + 1][col + d[2] + 1]})

Frame_count_neighbors(f, row, col) ==
    Cardinality({d \in (-1..1) \X (-1..1) :
        /\ d # <<0, 0>>
        /\ row + d[1] >= 0 /\ row + d[1] < f.height
        /\ col + d[2] >= 0 /\ col + d[2] < f.width
        /\ f.pixels[row + d[1] + 1][col + d[2] + 1]})

\* the pixels of the sprite that are on are set in the canvas, those that
\* fall outside it are dropped: canvas pixel (r, c) is sprite pixel
\* (r - y, c - x)
Frame_place_sprite(canvas, sprite, x, y) ==
    [canvas EXCEPT !.pixels =
        [r \in 1..canvas.height |-> [c \in 1..canvas.width |->
            \/ canvas.pixels[r][c]
            \/ /\ (r - 1) - y \in 0..(sprite.height - 1)
               /\ (c - 1) - x \in 0..(sprite.width - 1)
               /\ sprite.pixels[(r - 1) - y + 1][(c - 1) - x + 1]]]]

\* the side of the canvas place_sprite draws on
CanvasSide == 128

\* ------------------------------------------------------------------ builtins (full)
\* sin, cos, tan, sqrt and random are registered but have no case in
\* builtins_call: no modelled program calls them.
BuiltinNames ==
    {"sin", "cos", "tan", "sqrt", "floor", "ceil", "abs", "random",
     "count_neighbors", "get_pixel", "flip", "rotate", "place_sprite",
     "add_frame", "last_frame", "evolve_from", "play", "loop", "play_speed", "stop"}

has_function(name) == name \in BuiltinNames

math_floor(args) ==
    IF Len(args) # 1 THEN PErr("ArgumentError")
    ELSE LET n == to_number(args[1])
         IN IF n.ok THEN POk(Value_Number(FFloor(n.v))) ELSE n

math_ceil(args) ==
    IF Len(args) # 1 THEN PErr("ArgumentError")
    ELSE LET n == to_number(args[1])
         IN IF n.ok THEN POk(Value_Number(FCeil(n.v))) ELSE n

math_abs(args) ==
    IF Len(args) # 1 THEN PErr("ArgumentError")
    ELSE LET n == to_number(args[1])
         IN IF n.ok THEN POk(Value_Number(FAbs(n.v))) ELSE n

frame_count_neighbors(args) ==
    IF Len(args) # 3 THEN PErr("ArgumentError")
    ELSE IF args[1].t # "Frame" THEN PErr("TypeError")
    ELSE LET row == to_number(args[2])
             col == to_number(args[3])
         IN IF ~row.ok THEN row
            ELSE IF ~col.ok THEN col
            ELSE IF CastUnsigned(row.v) >= args[1].f.height \/ CastUnsigned(col.v) >= args[1].f.width
                 THEN PErr("IndexError")
                 ELSE POk(Value_Number(F64(
                          Frame_count_neighbors(args[1].f, CastUnsigned(row.v), CastUnsigned(col.v)))))

frame_get_pixel(args) ==
    IF Len(args) # 3 THEN PErr("ArgumentError")
    ELSE IF args[1].t # "Frame" THEN PErr("TypeError")
    ELSE LET row == to_number(args[2])
             col == to_number(args[3])
         IN IF ~row.ok THEN row
            ELSE IF ~col.ok THEN col
            ELSE LET pixel == Frame_get_pixel(args[1].f, CastUnsigned(row.v), CastUnsigned(col.v))
                 IN IF ~pixel.ok THEN pixel
                    ELSE POk(Value_Number(IF pixel.v THEN F64(1) ELSE F64(0)))

frame_flip(args) ==
    IF Len(args) # 1 THEN PErr("ArgumentError")
    ELSE IF args[1].t # "Frame" THEN PErr("TypeError")
    ELSE POk(Value_Frame(Frame_flip(args[1].f)))

frame_rotate(args) ==
    IF Len(args) # 1 THEN PErr("ArgumentError")
    ELSE IF args[1].t # "Frame" THEN PErr("TypeError")
    ELSE POk(Value_Frame(Frame_rotate_90(args[1].f)))

frame_place_sprite(args) ==
    IF Len(args) # 3 THEN PErr("ArgumentError")
    ELSE IF args[1].t # "Frame" THEN PErr("TypeError")
    ELSE LET x == to_number(args[2])
             y == to_number(args[3])
         IN IF ~x.ok THEN x
            ELSE IF ~y.ok THEN y
            ELSE POk(Value_Frame(Frame_place_sprite(Frame_new(CanvasSide, CanvasSide),
                                                    args[1].f, CastI32(x.v), CastI32(y.v))))

array_add_frame(args) ==
    IF Len(args) # 2 THEN PErr("ArgumentError")
    ELSE IF args[1].t # "Frames" THEN PErr("TypeError")
    ELSE IF args[2].t # "Frame" THEN PErr("TypeError")
    ELSE POk(Value_Frames(Append(args[1].fs, args[2].f)))

array_last_frame(args) ==
    IF Len(args) # 1 THEN PErr("ArgumentError")
    ELSE IF args[1].t # "Frames" THEN PErr("TypeError")
    ELSE IF Len(args[1].fs) = 0 THEN PErr("RuntimeError")
    ELSE POk(Value_Frame(args[1].fs[Len(args[1].fs)]))

frame_evolve_from(args) ==
    IF Len(args) # 2 THEN PErr("ArgumentError")
    ELSE IF args[1].t # "Frame" THEN PErr("TypeError")
    ELSE POk(args[1])

animation_play(args) ==
    IF Len(args) # 1 THEN PErr("ArgumentError")
    ELSE IF args[1].t \in {"Frames", "Frame"} THEN POk(Value_Boolean(TRUE))
    ELSE PErr("TypeError")

animation_loop(args) ==
    IF Len(args) # 1 THEN PErr("ArgumentError")
    ELSE IF args[1].t = "Frames" THEN POk(Value_Boolean(TRUE))
    ELSE PErr("TypeError")

animation_play_speed(args) ==
    IF Len(args) # 2 THEN PErr("ArgumentError")
    ELSE IF args[1].t = "Frames" /\ args[2].t = "Number" THEN POk(Value_Boolean(TRUE))
    ELSE PErr("TypeError")

animation_stop(args) == POk(Value_Boolean(TRUE))

builtins_call(name, args) ==
    CASE name = "floor" -> math_floor(args)
      [] name = "ceil" -> math_ceil(args)
      [] name = "abs" -> math_abs(args)
      [] name = "count_neighbors" -> frame_count_neighbors(args)
      [] name = "get_pixel" -> frame_get_pixel(args)
      [] name = "flip" -> frame_flip(args)
      [] name = "rotate" -> frame_rotate(args)
      [] name = "place_sprite" -> frame_place_sprite(args)
      [] name = "add_frame" -> array_add_frame(args)
      [] name = "last_frame" -> array_last_frame(args)
      [] name = "evolve_from" -> frame_evolve_from(args)
      [] name = "play" -> animation_play(args)
      [] name = "loop" -> animation_loop(args)
      [] name = "play_speed" -> animation_play_speed(args)
      [] name = "stop" -> animation_stop(args)

\* ------------------------------------------------------------------ Interpreter (full)
\* The interpreter is the record st of its fields environment,
\* event_handlers, animation_state, output_frames and current_time (globals,
\* builtins and frame_renderer never change), plus st.log, the trace of what
\* the current host call has executed: one entry per statement executed, per
\* builtin called and per interception entered, per value a `return` has
\* produced, and per pixel of a generator begun and decided.
Log(st, ev, kind, name) ==
    [st EXCEPT !.log = Append(@, [ev |-> ev, kind |-> kind, name |-> name])]

Lift(st, p) == IF p.ok THEN ROk(st, p.v) ELSE RErr(st, p.err)

\* the keys "clicked" and format!("idle_{}", ms) of event_handlers
HandlerKey_clicked == [event |-> "clicked", ms |-> 0]

HandlerKey_idle(ms) == [event |-> "idle", ms |-> ms]

values_equal(left, right) ==
    IF left.t # right.t THEN FALSE
    ELSE CASE left.t = "Number" ->
                  LET d == FSub(left.n, right.n) IN ~IsNaN(d) /\ d.p = 0
           [] left.t = "String" -> left.s = right.s
           [] left.t = "Boolean" -> left.b = right.b
           [] left.t = "Frame" -> left.f = right.f
           [] left.t = "Frames" -> left.fs = right.fs

apply_binary_operator(left, op, right) ==
    IF op = "Equal" THEN POk(Value_Boolean(values_equal(left, right)))
    ELSE IF op = "NotEqual" THEN POk(Value_Boolean(~values_equal(left, right)))
    ELSE IF op = "And" THEN POk(Value_Boolean(is_truthy(left) /\ is_truthy(right)))
    ELSE IF op = "Or" THEN POk(Value_Boolean(is_truthy(left) \/ is_truthy(right)))
    ELSE LET l == to_number(left)
             r == to_number(right)
         IN IF ~l.ok THEN l
            ELSE IF ~r.ok THEN r
            ELSE CASE op = "Add" -> POk(Value_Number(FAdd(l.v, r.v)))
                   [] op = "Subtract" -> POk(Value_Number(FSub(l.v, r.v)))
                   [] op = "Multiply" -> POk(Value_Number(FMul(l.v, r.v)))
                   [] op = "Divide" ->
                          IF IsZero(r.v) THEN PErr("DivisionByZero")
                          ELSE POk(Value_Number(FDiv(l.v, r.v)))
                   [] op = "Modulo" ->
                          IF IsZero(r.v) THEN PErr("DivisionByZero")
                          ELSE POk(Value_Number(FRem(l.v, r.v)))
                   [] op = "Power" -> POk(Value_Number(FPow(l.v, r.v)))
                   [] op = "Less" -> POk(Value_Boolean(FLt(l.v, r.v)))
                   [] op = "Greater" -> POk(Value_Boolean(FLt(r.v, l.v)))
                   [] op = "LessEqual" -> POk(Value_Boolean(FLe(l.v, r.v)))
                   [] op = "GreaterEqual" -> POk(Value_Boolean(FLe(r.v, l.v)))

apply_unary_operator(op, operand) ==
    IF op = "Not" THEN POk(Value_Boolean(~is_truthy(operand)))
    ELSE LET num == to_number(operand)
         IN IF num.ok THEN POk(Value_Number(FNeg(num.v))) ELSE num

apply_index_operator(object, index) ==
    IF object.t = "Frame" /\ index.t = "Number"
    THEN LET row_idx == CastUnsigned(index.n)
         IN IF row_idx >= object.f.height THEN PErr("IndexError")
            ELSE LET row_frame == Frame_from_array(<<object.f.pixels[row_idx + 1]>>)
                 IN IF row_frame.ok THEN POk(Value_Frame(row_frame.v)) ELSE row_frame
    ELSE IF object.t = "Frames" /\ index.t = "Number"
    THEN LET frame_idx == CastUnsigned(index.n)
         IN IF frame_idx >= Len(object.fs) THEN PErr("IndexError")
            ELSE POk(Value_Frame(object.fs[frame_idx + 1]))
    ELSE PErr("TypeError")

try_create_2d_frame(values) ==
    IF \E i \in 1..Len(values) : values[i].t # "Frame" \/ values[i].f.height # 1
    THEN PErr("TypeError")
    ELSE IF Len(values) = 0 THEN PErr("TypeError")
    ELSE LET frame == Frame_from_array([i \in 1..Len(values) |-> values[i].f.pixels[1]])
         IN IF frame.ok THEN POk(Value_Frame(frame.v)) ELSE frame

\* the value of an array literal whose elements evaluated to `values`
array_value(values) ==
    IF \A i \in 1..Len(values) : values[i].t = "Frame"
    THEN POk(Value_Frames([i \in 1..Len(values) |-> values[i].f]))
    ELSE IF \A i \in 1..Len(values) : values[i].t = "Number"
    THEN LET frame == Frame_from_array(<<[i \in 1..Len(values) |-> ~IsZero(values[i].n)]>>)
         IN IF frame.ok THEN POk(Value_Frame(frame.v)) ELSE frame
    ELSE try_create_2d_frame(values)

\* the label a statement gets in st.log
StatementName(stmt) ==
    IF stmt.kind = "VariableDeclaration" THEN stmt.name
    ELSE IF stmt.kind \in {"ExpressionStatement", "ReturnStatement"} /\ stmt.expr.kind = "FunctionCall"
    THEN stmt.expr.name
    ELSE ""

\* `self.method(...)` inside the interpreter: the methods reach each other
\* through one entry
RECURSIVE Interpreter_call(_)

self_execute_statement(st0, stmt) ==
    Interpreter_call([method |-> "execute_statement", args |-> <<st0, stmt>>])

self_execute_block(st, statements) ==
    Interpreter_call([method |-> "execute_block", args |-> <<st, statements>>])

self_execute_elsif(st, stmt, i) ==
    Interpreter_call([method |-> "execute_elsif", args |-> <<st, stmt, i>>])

self_execute_repeat(st, body, count) ==
    Interpreter_call([method |-> "execute_repeat", args |-> <<st, body, count>>])

self_evaluate_expression(st, expr) ==
    Interpreter_call([method |-> "evaluate_expression", args |-> <<st, expr>>])

self_evaluate_all(st, exprs) ==
    Interpreter_call([method |-> "evaluate_all", args |-> <<st, exprs>>])

self_generate_pixels(st, frame, k, width, height, extra, body) ==
    Interpreter_call([method |-> "generate_pixels", args |-> <<st, frame, k, width, height, extra, body>>])


\* execute_when as it would be if the body ran at declaration time
execute_when_eager(st, stmt) ==
    LET ran == self_execute_block(st, stmt.body)
    IN ROk([ran.st EXCEPT !.event_handlers = Put(@, HandlerKey_clicked, stmt.body)], NoneV)

\* WhenStatement: the body is stored under the event's key and not executed
execute_when(st, stmt) ==
    IF stmt.event.kind = "Clicked"
    THEN ROk([st EXCEPT !.event_handlers = Put(@, HandlerKey_clicked, stmt.body)], NoneV)
    ELSE LET time == self_evaluate_expression(st, stmt.event.time)
         IN IF ~time.ok THEN time
            ELSE LET time_ms == to_number(time.v)
                 IN IF ~time_ms.ok THEN RErr(time.st, time_ms.err)
                    ELSE ROk([time.st EXCEPT !.event_handlers =
                                 Put(@, HandlerKey_idle(CastUnsigned(time_ms.v)), stmt.body)], NoneV)

\* the duration play_speed stores: `*ms as u64`
play_speed_duration(ms) == CastUnsigned(ms)

handle_animation_function(st0, func_name, args) ==
    LET st == Log(st0, "intercept", "", func_name)
        a == self_evaluate_all(st, args)
    IN IF ~a.ok THEN a
       ELSE IF func_name \in {"play", "loop"} /\ Len(a.v) >= 1 /\ a.v[1].t = "Frames"
       THEN ROk([a.st EXCEPT !.animation_state =
                                 AnimationState_new(a.v[1].fs, func_name = "loop", 100),
                             !.output_frames = a.v[1].fs], NoneV)
       ELSE IF func_name = "play_speed" /\ Len(a.v) >= 2
               /\ a.v[1].t = "Frames" /\ a.v[2].t = "Number"
       THEN ROk([a.st EXCEPT !.animation_state =
                                 AnimationState_new(a.v[1].fs, FALSE, play_speed_duration(a.v[2].n)),
                             !.output_frames = a.v[1].fs], NoneV)
       ELSE ROk(a.st, NoneV)

\* `self.self_evaluate_expression(e)?.to_number()? as usize`
evaluate_usize(st, expr) ==
    LET r == self_evaluate_expression(st, expr)
    IN IF ~r.ok THEN r
       ELSE LET n == to_number(r.v)
            IN IF n.ok THEN ROk(r.st, CastUnsigned(n.v)) ELSE RErr(r.st, n.err)

generate_pattern_frame(st, width, height, body) ==
    self_generate_pixels(st, Frame_new(width, height), 0, width, height, <<>>, body)

generate_animated_frame(st, width, height, time_var, body) ==
    self_generate_pixels(st, Frame_new(width, height), 0, width, height,
                    <<[name |-> time_var, value |-> Value_Number(F64(st.current_time))]>>, body)

\* generate_cellular_frame as it would be if the binding of prev_var were
\* not looked at before the pixels
generate_cellular_frame_unchecked(st, width, height, prev_var, body) ==
    LET prev_frame == Environment_get(st.environment, prev_var)
    IN self_generate_pixels(st, Frame_new(width, height), 0, width, height,
                            IF prev_frame.ok
                            THEN <<[name |-> prev_var, value |-> prev_frame.v]>> ELSE <<>>, body)

generate_cellular_frame(st, width, height, prev_var, body) ==
    LET prev_frame == Environment_get(st.environment, prev_var)
    IN IF prev_frame.ok /\ prev_frame.v.t = "Frame"
       THEN self_generate_pixels(st, Frame_new(width, height), 0, width, height,
                            <<[name |-> prev_var, value |-> prev_frame.v]>>, body)
       ELSE RErr(st, "RuntimeError")

execute_statement(st0, stmt) ==
    LET st == Log(st0, "stmt", stmt.kind, StatementName(stmt))
    IN CASE stmt.kind = "VariableDeclaration" ->
               LET val == self_evaluate_expression(st, stmt.value)
               IN IF ~val.ok THEN val
                  ELSE ROk([val.st EXCEPT !.environment =
                               Environment_define(@, stmt.name, val.v)], NoneV)
         [] stmt.kind = "ExpressionStatement" ->
               LET result == self_evaluate_expression(st, stmt.expr)
               IN IF ~result.ok THEN result
                  ELSE IF stmt.expr.kind = "FunctionCall"
                          /\ stmt.expr.name \in {"play", "loop", "play_speed"}
                  THEN LET h == handle_animation_function(result.st, stmt.expr.name, stmt.expr.args)
                       IN IF ~h.ok THEN h ELSE ROk(h.st, result.v)
                  ELSE ROk(result.st, result.v)
         [] stmt.kind = "IfStatement" ->
               LET condition_value == self_evaluate_expression(st, stmt.condition)
               IN IF ~condition_value.ok THEN condition_value
                  ELSE IF is_truthy(condition_value.v)
                  THEN self_execute_block(condition_value.st, stmt.then_block)
                  ELSE self_execute_elsif(condition_value.st, stmt, 1)
         [] stmt.kind = "RepeatStatement" ->
               LET times_value == self_evaluate_expression(st, stmt.times)
               IN IF ~times_value.ok THEN times_value
                  ELSE LET count == to_number(times_value.v)
                       IN IF ~count.ok THEN RErr(times_value.st, count.err)
                          ELSE self_execute_repeat(times_value.st, stmt.body, CastI32(count.v))
         [] stmt.kind = "WhenStatement" -> execute_when(st, stmt)
         [] stmt.kind = "ReturnStatement" ->
               LET value == self_evaluate_expression(st, stmt.expr)
               IN IF ~value.ok THEN value
                  ELSE ROk(Log(value.st, "return", "",
                               IF is_truthy(value.v) THEN "truthy" ELSE "falsy"), value.v)

\* the elsif conditions from the i-th on, then the else block
execute_elsif(st, stmt, i) ==
    IF i > Len(stmt.elsif_blocks)
    THEN IF Len(stmt.else_block) > 0 THEN self_execute_block(st, stmt.else_block[1])
         ELSE ROk(st, NoneV)
    ELSE LET elsif_value == self_evaluate_expression(st, stmt.elsif_blocks[i].condition)
         IN IF ~elsif_value.ok THEN elsif_value
            ELSE IF is_truthy(elsif_value.v)
            THEN self_execute_block(elsif_value.st, stmt.elsif_blocks[i].body)
            ELSE self_execute_elsif(elsif_value.st, stmt, i + 1)

\* execute_repeat as it would be if a value returned by the body did not end
\* the loop
execute_repeat_on(st, body, count) ==
    IF count <= 0 THEN ROk(st, NoneV)
    ELSE LET r == self_execute_block(st, body)
         IN IF ~r.ok THEN r
            ELSE self_execute_repeat(r.st, body, count - 1)

\* `for _i in 0..count`, with `count` iterations left
execute_repeat(st, body, count) ==
    IF count <= 0 THEN ROk(st, NoneV)
    ELSE LET r == self_execute_block(st, body)
         IN IF ~r.ok THEN r
            ELSE IF IsSome(r.v) THEN r
            ELSE self_execute_repeat(r.st, body, count - 1)

execute_block(st, statements) ==
    IF Len(statements) = 0 THEN ROk(st, NoneV)
    ELSE LET r == self_execute_statement(st, Head(statements))
         IN IF ~r.ok THEN r
            ELSE IF IsSome(r.v) THEN r
            ELSE self_execute_block(r.st, Tail(statements))

\* the elements of a list evaluated left to right, stopping at the first error
evaluate_all(st, exprs) ==
    IF Len(exprs) = 0 THEN ROk(st, <<>>)
    ELSE LET first == self_evaluate_expression(st, Head(exprs))
         IN IF ~first.ok THEN first
            ELSE LET rest == self_evaluate_all(first.st, Tail(exprs))
                 IN IF ~rest.ok THEN rest
                    ELSE ROk(rest.st, <<first.v>> \o rest.v)

\* the pixels from the k-th on, in row-major order.  `extra` holds the
\* binding an animated or cellular generator adds to each pixel's scope.  The
\* loop over the body is the loop of execute_block: the first statement that
\* yields Some(value) decides the pixel.  A failing statement propagates with
\* `?` before `self.environment = old_env` is reached.
generate_pixels(st, frame, k, width, height, extra, body) ==
    IF k >= width * height THEN ROk(st, Value_Frame(frame))
    ELSE LET row == k \div width
             col == k % width
             old_env == st.environment
             env0 == Environment_define(
                         Environment_define(Environment_new_enclosed(old_env),
                                            "row", Value_Number(F64(row))),
                         "col", Value_Number(F64(col)))
             pixel_env == IF Len(extra) = 0 THEN env0
                          ELSE Environment_define(env0, extra[1].name, extra[1].value)
             b == self_execute_block(
                      [Log(st, "pixel_begin", "", "") EXCEPT !.environment = pixel_env], body)
         IN IF ~b.ok THEN b
            ELSE LET pixel_value == IF IsSome(b.v) THEN is_truthy(b.v) ELSE FALSE
                     restored == [Log(b.st, "pixel", "", IF pixel_value THEN "on" ELSE "off")
                                     EXCEPT !.environment = old_env]
                     set == Frame_set_pixel(frame, row, col, pixel_value)
                 IN IF ~set.ok THEN RErr(restored, set.err)
                    ELSE self_generate_pixels(restored, set.v, k + 1, width, height, extra, body)

evaluate_expression(st, expr) ==
    CASE expr.kind = "Number" -> ROk(st, Value_Number(expr.n))
      [] expr.kind = "String" -> ROk(st, Value_String(expr.s))
      [] expr.kind = "Boolean" -> ROk(st, Value_Boolean(expr.b))
      [] expr.kind = "Identifier" ->
            IF expr.name = "time" THEN ROk(st, Value_Number(F64(st.current_time)))
            ELSE Lift(st, Environment_get(st.environment, expr.name))
      [] expr.kind = "Array" ->
            LET values == self_evaluate_all(st, expr.elements)
            IN IF ~values.ok THEN values ELSE Lift(values.st, array_value(values.v))
      [] expr.kind = "FunctionCall" ->
            LET arg_values == self_evaluate_all(st, expr.args)
            IN IF ~arg_values.ok THEN arg_values
               ELSE IF has_function(expr.name)
               THEN Lift(Log(arg_values.st, "builtin", "", expr.name),
                         builtins_call(expr.name, arg_values.v))
               ELSE RErr(arg_values.st, "UndefinedFunction")
      [] expr.kind = "Binary" ->
            LET left_val == self_evaluate_expression(st, expr.left)
            IN IF ~left_val.ok THEN left_val
               ELSE LET right_val == self_evaluate_expression(left_val.st, expr.right)
                    IN IF ~right_val.ok THEN right_val
                       ELSE Lift(right_val.st,
                                 apply_binary_operator(left_val.v, expr.operator, right_val.v))
      [] expr.kind = "Unary" ->
            LET operand_val == self_evaluate_expression(st, expr.operand)
            IN IF ~operand_val.ok THEN operand_val
               ELSE Lift(operand_val.st, apply_unary_operator(expr.operator, operand_val.v))
      [] expr.kind = "Index" ->
            LET obj_val == self_evaluate_expression(st, expr.object)
            IN IF ~obj_val.ok THEN obj_val
               ELSE LET idx_val == self_evaluate_expression(obj_val.st, expr.index)
                    IN IF ~idx_val.ok THEN idx_val
                       ELSE Lift(idx_val.st, apply_index_operator(obj_val.v, idx_val.v))
      [] expr.kind \in {"PatternGenerator", "AnimatedGenerator", "CellularGenerator"} ->
            LET w == evaluate_usize(st, expr.width)
            IN IF ~w.ok THEN w
               ELSE LET h == evaluate_usize(w.st, expr.height)
                    IN IF ~h.ok THEN h
                       ELSE IF expr.kind = "PatternGenerator"
                       THEN generate_pattern_frame(h.st, w.v, h.v, expr.body)
                       ELSE IF expr.kind = "AnimatedGenerator"
                       THEN generate_animated_frame(h.st, w.v, h.v, expr.time_var, expr.body)
                       ELSE generate_cellular_frame(h.st, w.v, h.v, expr.prev_var, expr.body)
      [] expr.kind = "Conditional" ->
            LET condition_val == self_evaluate_expression(st, expr.condition)
            IN IF ~condition_val.ok THEN condition_val
               ELSE IF is_truthy(condition_val.v)
               THEN self_evaluate_expression(condition_val.st, expr.then_expr)
               ELSE self_evaluate_expression(condition_val.st, expr.else_expr)

Interpreter_call(c) ==
    CASE c.method = "execute_statement" ->
           execute_statement(c.args[1], c.args[2])
      [] c.method = "execute_block" ->
           execute_block(c.args[1], c.args[2])
      [] c.method = "execute_elsif" ->
           execute_elsif(c.args[1], c.args[2], c.args[3])
      [] c.method = "execute_repeat" ->
           execute_repeat(c.args[1], c.args[2], c.args[3])
      [] c.method = "evaluate_expression" ->
           evaluate_expression(c.args[1], c.args[2])
      [] c.method = "evaluate_all" ->
           evaluate_all(c.args[1], c.args[2])
      [] c.method = "generate_pixels" ->
           generate_pixels(c.args[1], c.args[2], c.args[3], c.args[4], c.args[5], c.args[6], c.args[7])

\* the loop of handle_click_event / handle_idle_event over a stored body:
\* every statement runs, a returned value is dropped, the first error ends it
RECURSIVE run_handler(_, _)
run_handler(st, statements) ==
    IF Len(statements) = 0 THEN ROk(st, NoneV)
    ELSE LET r == self_execute_statement(st, Head(statements))
         IN IF ~r.ok THEN r ELSE run_handler(r.st, Tail(statements))

handle_click_event(st) ==
    IF HandlerKey_clicked \in DOMAIN st.event_handlers
    THEN run_handler(st, st.event_handlers[HandlerKey_clicked])
    ELSE ROk(st, NoneV)

\* handle_idle_event as it would be if an idle time with no handler fell back
\* to the clicked handler
handle_idle_event_fallback(st, idle_time) ==
    IF HandlerKey_idle(idle_time) \in DOMAIN st.event_handlers
    THEN run_handler(st, st.event_handlers[HandlerKey_idle(idle_time)])
    ELSE handle_click_event(st)

handle_idle_event(st, idle_time) ==
    IF HandlerKey_idle(idle_time) \in DOMAIN st.event_handlers
    THEN run_handler(st, st.event_handlers[HandlerKey_idle(idle_time)])
    ELSE ROk(st, NoneV)

\* update(delta_ms)
update(st, delta_ms) ==
    LET now == st.current_time + delta_ms
    IN [st EXCEPT !.current_time = now,
                  !.animation_state =
                      IF @.present THEN AnimationState_update(@, now) ELSE @]

\* ------------------------------------------------------------------ Lexer (full)
\* The input is the sequence of its characters, each a one-character string.
\* A token is [t |-> variant], with n, s or name for the payload of Number,
\* String and Identifier.
NUL == "NUL"

Digits == <<"0", "1", "2", "3", "4", "5", "6", "7", "8", "9">>

is_ascii_digit(c) == \E i \in 1..10 : Digits[i] = c

DigitValue(c) == (CHOOSE i \in 1..10 : Digits[i] = c) - 1

Letters ==
    {"a", "b", "c", "d", "e", "f", "g", "h", "i", "j", "k", "l", "m",
     "n", "o", "p", "q", "r", "s", "t", "u", "v", "w", "x", "y", "z",
     "A", "B", "C", "D", "E", "F", "G", "H", "I", "J", "K", "L", "M",
     "N", "O", "P", "Q", "R", "S", "T", "U", "V", "W", "X", "Y", "Z"}

is_ascii_alphabetic(c) == c \in Letters

is_ascii_alphanumeric(c) == is_ascii_alphabetic(c) \/ is_ascii_digit(c)

Token(t) == [t |-> t]

Token_Number(n) == [t |-> "Number", n |-> n]

Token_String(s) == [t |-> "String", s |-> s]

Token_Identifier(name) == [t |-> "Identifier", name |-> name]

LexOk(tok, position) == [ok |-> TRUE, tok |-> tok, position |-> position, err |-> "None"]

LexErr(position) == [ok |-> FALSE, tok |-> Token("Eof"), position |-> position, err |-> "LexError"]

Lexer_is_at_end(input, position) == position >= Len(input)

Lexer_peek(input, position) ==
    IF Lexer_is_at_end(input, position) THEN NUL ELSE input[position + 1]

Lexer_peek_next(input, position) ==
    IF position + 1 >= Len(input) THEN NUL ELSE input[position + 2]

RECURSIVE skip_whitespace(_, _)
skip_whitespace(input, position) ==
    IF ~Lexer_is_at_end(input, position) /\ Lexer_peek(input, position) \in {" ", "\r", "\t"}
    THEN skip_whitespace(input, position + 1)
    ELSE position

\* `while self.peek() != '\n' && !self.is_at_end() { self.advance(); }`
RECURSIVE skip_comment(_, _)
skip_comment(input, position) ==
    IF Lexer_peek(input, position) # "\n" /\ ~Lexer_is_at_end(input, position)
    THEN skip_comment(input, position + 1)
    ELSE position

\* `while self.peek().is_ascii_digit() { value.push(self.advance()); }`:
\* `value` is the number the digits read so far spell, `count` how many
\* digits this loop has read
RECURSIVE scan_digits(_, _, _, _)
scan_digits(input, position, value, count) ==
    IF is_ascii_digit(Lexer_peek(input, position))
    THEN scan_digits(input, position + 1,
                     10 * value + DigitValue(Lexer_peek(input, position)), count + 1)
    ELSE [position |-> position, value |-> value, count |-> count]

RECURSIVE Pow10(_)
Pow10(n) == IF n = 0 THEN 1 ELSE 10 * Pow10(n - 1)

\* value.parse::<f64>() of digits with an optional fraction always succeeds
number_literal(input, position, first_digit) ==
    LET whole == scan_digits(input, position, DigitValue(first_digit), 0)
    IN IF Lexer_peek(input, whole.position) = "."
          /\ is_ascii_digit(Lexer_peek_next(input, whole.position))
       THEN LET frac == scan_digits(input, whole.position + 1, whole.value, 0)
            IN LexOk(Token_Number(Rat(frac.value, Pow10(frac.count))), frac.position)
       ELSE LexOk(Token_Number(F64(whole.value)), whole.position)

keyword(value) ==
    CASE value = "frame" -> Token("Frame")
      [] value = "frames" -> Token("Frames")
      [] value = "num" -> Token("Num")
      [] value = "text" -> Token("Text")
      [] value = "pattern" -> Token("Pattern")
      [] value = "animate" -> Token("Animate")
      [] value = "evolve" -> Token("Evolve")
      [] value = "using" -> Token("Using")
      [] value = "from" -> Token("From")
      [] value = "if" -> Token("If")
      [] value = "then" -> Token("Then")
      [] value = "elsif" -> Token("Elsif")
      [] value = "else" -> Token("Else")
      [] value = "end" -> Token("End")
      [] value = "repeat" -> Token("Repeat")
      [] value = "do" -> Token("Do")
      [] value = "times" -> Token("Times")
      [] value = "when" -> Token("When")
      [] value = "clicked" -> Token("Clicked")
      [] value = "idle" -> Token("Idle")
      [] value = "play" -> Token("Play")
      [] value = "loop" -> Token("Loop")
      [] value = "stop" -> Token("Stop")
      [] value = "return" -> Token("Return")
      [] value = "and" -> Token("And")
      [] value = "or" -> Token("Or")
      [] value = "not" -> Token("Not")
      [] OTHER -> Token_Identifier(value)

RECURSIVE identifier_or_keyword(_, _, _)
identifier_or_keyword(input, position, value) ==
    IF is_ascii_alphanumeric(Lexer_peek(input, position)) \/ Lexer_peek(input, position) = "_"
    THEN identifier_or_keyword(input, position + 1, value \o Lexer_peek(input, position))
    ELSE LexOk(keyword(value), position)

RECURSIVE string_literal(_, _, _)
string_literal(input, position, value) ==
    IF Lexer_peek(input, position) # "\"" /\ ~Lexer_is_at_end(input, position)
    THEN LET c == input[position + 1]
         IN IF c = "\\"
            THEN LET e == Lexer_peek(input, position + 1)
                     after == IF Lexer_is_at_end(input, position + 1)
                              THEN position + 1 ELSE position + 2
                 IN CASE e = "n" -> string_literal(input, after, value \o "\n")
                      [] e = "t" -> string_literal(input, after, value \o "\t")
                      [] e = "r" -> string_literal(input, after, value \o "\r")
                      [] e = "\\" -> string_literal(input, after, value \o "\\")
                      [] e = "\"" -> string_literal(input, after, value \o "\"")
                      [] OTHER -> LexErr(after)
            ELSE string_literal(input, position + 1, value \o c)
    ELSE IF Lexer_is_at_end(input, position) THEN LexErr(position)
    ELSE LexOk(Token_String(value), position + 1)

RECURSIVE next_token(_, _)
next_token(input, position0) ==
    LET position == skip_whitespace(input, position0)
    IN IF Lexer_is_at_end(input, position) THEN LexOk(Token("Eof"), position)
       ELSE LET c == input[position + 1]
                p == position + 1
                followed(x) == Lexer_peek(input, p) = x
            IN CASE c = "\n" -> LexOk(Token("Newline"), p)
                 [] c = "(" -> LexOk(Token("LeftParen"), p)
                 [] c = ")" -> LexOk(Token("RightParen"), p)
                 [] c = "[" -> LexOk(Token("LeftBracket"), p)
                 [] c = "]" -> LexOk(Token("RightBracket"), p)
                 [] c = "{" -> LexOk(Token("LeftBrace"), p)
                 [] c = "}" -> LexOk(Token("RightBrace"), p)
                 [] c = "," -> LexOk(Token("Comma"), p)
                 [] c = ";" -> LexOk(Token("Semicolon"), p)
                 [] c = ":" -> LexOk(Token("Colon"), p)
                 [] c = "+" -> LexOk(Token("Plus"), p)
                 [] c = "-" -> LexOk(Token("Minus"), p)
                 [] c = "*" -> LexOk(Token("Star"), p)
                 [] c = "/" -> IF followed("/") THEN next_token(input, skip_comment(input, p))
                               ELSE LexOk(Token("Slash"), p)
                 [] c = "%" -> LexOk(Token("Percent"), p)
                 [] c = "^" -> LexOk(Token("Caret"), p)
                 [] c = "=" -> IF followed("=") THEN LexOk(Token("EqualEqual"), p + 1)
                               ELSE LexOk(Token("Equal"), p)
                 [] c = "!" -> IF followed("=") THEN LexOk(Token("NotEqual"), p + 1)
                               ELSE LexErr(p)
                 [] c = "<" -> IF followed("=") THEN LexOk(Token("LessEqual"), p + 1)
                               ELSE LexOk(Token("Less"), p)
                 [] c = ">" -> IF followed("=") THEN LexOk(Token("GreaterEqual"), p + 1)
                               ELSE LexOk(Token("Greater"), p)
                 [] c = "\"" -> string_literal(input, p, "")
                 [] is_ascii_digit(c) -> number_literal(input, p, c)
                 [] is_ascii_alphabetic(c) \/ c = "_" -> identifier_or_keyword(input, p, c)
                 [] OTHER -> LexErr(p)

\* tokenize() as it would be if the loop ended without pushing the
\* end-of-input token
RECURSIVE Lexer_tokenize_open(_, _, _)
Lexer_tokenize_open(input, position, tokens) ==
    LET token == next_token(input, position)
    IN IF ~token.ok THEN PErr(token.err)
       ELSE IF token.tok.t = "Eof" THEN POk(tokens)
       ELSE Lexer_tokenize_open(input, token.position, Append(tokens, token.tok))

\* tokenize(): the loop from `position` on, `tokens` holding what it pushed
RECURSIVE Lexer_tokenize(_, _, _)
Lexer_tokenize(input, position, tokens) ==
    LET token == next_token(input, position)
    IN IF ~token.ok THEN PErr(token.err)
       ELSE IF token.tok.t = "Eof" THEN POk(Append(tokens, token.tok))
       ELSE Lexer_tokenize(input, token.position, Append(tokens, token.tok))

\* ------------------------------------------------------------------ Parser (full)
\* The parser is (tokens, current).  Every parsing function returns the node
\* it built and the value of `current` it leaves.  d counts the expressions
\* open around the one being parsed.  A call of primary() that re-enters
\* primary() with `current` unchanged recurses until the stack is exhausted
\* and the process aborts: its outcome is "StackOverflow", as is that of a
\* nesting deeper than MaxDepth.
ParseOk(v, current) == [ok |-> TRUE, v |-> v, current |-> current, err |-> "None"]

ParseErr(current, e) == [ok |-> FALSE, v |-> NoneV, current |-> current, err |-> e]

Parser_peek(tokens, current) ==
    IF current >= Len(tokens) THEN Token("Eof") ELSE tokens[current + 1]

Parser_is_at_end(tokens, current) ==
    current >= Len(tokens) \/ Parser_peek(tokens, current).t = "Eof"

Parser_previous(tokens, current) ==
    IF current = 0 THEN Token("Eof") ELSE tokens[current]

\* the value of `current` after advance(); the token advance() returns is
\* Parser_previous at that value
Parser_advance(tokens, current) ==
    IF ~Parser_is_at_end(tokens, current) THEN current + 1 ELSE current

RECURSIVE skip_newlines(_, _)
skip_newlines(tokens, current) ==
    IF Parser_peek(tokens, current).t = "Newline"
    THEN skip_newlines(tokens, Parser_advance(tokens, current))
    ELSE current

\* the end of every statement: an optional ';', then skip_newlines()
statement_end(tokens, current) ==
    skip_newlines(tokens, IF Parser_peek(tokens, current).t = "Semicolon"
                          THEN Parser_advance(tokens, current) ELSE current)

\* the token kinds each binary level loops on, loosest level first
LevelTokens ==
    <<{"Or"}, {"And"}, {"EqualEqual", "NotEqual"},
      {"Greater", "GreaterEqual", "Less", "LessEqual"},
      {"Plus", "Minus"}, {"Star", "Slash", "Percent"}>>

BinaryOperatorOf(t) ==
    CASE t = "Or" -> "Or"
      [] t = "And" -> "And"
      [] t = "EqualEqual" -> "Equal"
      [] t = "NotEqual" -> "NotEqual"
      [] t = "Greater" -> "Greater"
      [] t = "GreaterEqual" -> "GreaterEqual"
      [] t = "Less" -> "Less"
      [] t = "LessEqual" -> "LessEqual"
      [] t = "Plus" -> "Add"
      [] t = "Minus" -> "Subtract"
      [] t = "Star" -> "Multiply"
      [] t = "Slash" -> "Divide"
      [] t = "Percent" -> "Modulo"

VariableTypeOf(t) ==
    CASE t = "Frame" -> "Frame"
      [] t = "Frames" -> "Frames"
      [] t = "Num" -> "Num"
      [] t = "Text" -> "Text"

\* `self.method()` inside the parser: the methods reach each other through
\* one entry
RECURSIVE Parser_call(_)

self_statement(tokens, current, d) ==
    Parser_call([method |-> "statement", args |-> <<tokens, current, d>>])

self_block_until(tokens, current, terminators, statements, d) ==
    Parser_call([method |-> "block_until", args |-> <<tokens, current, terminators, statements, d>>])

self_elsif_blocks_loop(tokens, current, d, elsif_blocks) ==
    Parser_call([method |-> "elsif_blocks_loop", args |-> <<tokens, current, d, elsif_blocks>>])

self_expression(tokens, current, d) ==
    Parser_call([method |-> "expression", args |-> <<tokens, current, d>>])

self_binary_level(tokens, current, d, level) ==
    Parser_call([method |-> "binary_level", args |-> <<tokens, current, d, level>>])

self_binary_return(tokens, d, from, level, first) ==
    Parser_call([method |-> "binary_return", args |-> <<tokens, d, from, level, first>>])

self_binary_loop(tokens, current, d, level, expr) ==
    Parser_call([method |-> "binary_loop", args |-> <<tokens, current, d, level, expr>>])

self_power(tokens, current, d) ==
    Parser_call([method |-> "power", args |-> <<tokens, current, d>>])

self_unary(tokens, current, d) ==
    Parser_call([method |-> "unary", args |-> <<tokens, current, d>>])

self_call(tokens, current, d) ==
    Parser_call([method |-> "call", args |-> <<tokens, current, d>>])

self_call_loop(tokens, current, d, expr) ==
    Parser_call([method |-> "call_loop", args |-> <<tokens, current, d, expr>>])

self_primary(tokens, current, d) ==
    Parser_call([method |-> "primary", args |-> <<tokens, current, d>>])

self_expression_list(tokens, current, d, closer) ==
    Parser_call([method |-> "expression_list", args |-> <<tokens, current, d, closer>>])

self_expression_list_loop(tokens, current, d, closer, elements) ==
    Parser_call([method |-> "expression_list_loop", args |-> <<tokens, current, d, closer, elements>>])

self_generator(tokens, current, d, kind) ==
    Parser_call([method |-> "generator", args |-> <<tokens, current, d, kind>>])


variable_declaration(tokens, current, d) ==
    LET c1 == Parser_advance(tokens, current)
        type_token == Parser_previous(tokens, c1)
        c2 == Parser_advance(tokens, c1)
        name_token == Parser_previous(tokens, c2)
    IN IF type_token.t \notin {"Frame", "Frames", "Num", "Text"} THEN ParseErr(c1, "ParseError")
       ELSE IF name_token.t # "Identifier" THEN ParseErr(c2, "ParseError")
       ELSE IF Parser_peek(tokens, c2).t # "Equal" THEN ParseErr(c2, "ParseError")
       ELSE LET value == self_expression(tokens, Parser_advance(tokens, c2), d)
            IN IF ~value.ok THEN value
               ELSE ParseOk(Statement_VariableDeclaration(VariableTypeOf(type_token.t),
                                                          name_token.name, value.v),
                            statement_end(tokens, value.current))

\* `while self.peek() == &Token::Elsif { ... }`, then the optional else block
elsif_blocks_loop(tokens, current, d, elsif_blocks) ==
    IF Parser_peek(tokens, current).t = "Elsif"
    THEN LET elsif_condition == self_expression(tokens, Parser_advance(tokens, current), d)
         IN IF ~elsif_condition.ok THEN elsif_condition
            ELSE IF Parser_peek(tokens, elsif_condition.current).t # "Then"
            THEN ParseErr(elsif_condition.current, "ParseError")
            ELSE LET elsif_body ==
                         self_block_until(tokens,
                                     skip_newlines(tokens, Parser_advance(tokens, elsif_condition.current)),
                                     {"Elsif", "Else", "End"}, <<>>, d)
                 IN IF ~elsif_body.ok THEN elsif_body
                    ELSE self_elsif_blocks_loop(tokens, elsif_body.current, d,
                             Append(elsif_blocks,
                                    [condition |-> elsif_condition.v, body |-> elsif_body.v]))
    ELSE ParseOk(elsif_blocks, current)

if_statement(tokens, current, d) ==
    LET condition == self_expression(tokens, Parser_advance(tokens, current), d)
    IN IF ~condition.ok THEN condition
       ELSE IF Parser_peek(tokens, condition.current).t # "Then"
       THEN ParseErr(condition.current, "ParseError")
       ELSE LET then_block ==
                    self_block_until(tokens,
                                skip_newlines(tokens, Parser_advance(tokens, condition.current)),
                                {"Elsif", "Else", "End"}, <<>>, d)
            IN IF ~then_block.ok THEN then_block
               ELSE LET elsifs == self_elsif_blocks_loop(tokens, then_block.current, d, <<>>)
                    IN IF ~elsifs.ok THEN elsifs
                       ELSE LET else_block ==
                                    IF Parser_peek(tokens, elsifs.current).t = "Else"
                                    THEN LET b == self_block_until(tokens,
                                                      skip_newlines(tokens,
                                                          Parser_advance(tokens, elsifs.current)),
                                                      {"End"}, <<>>, d)
                                         IN IF b.ok THEN ParseOk(<<b.v>>, b.current) ELSE b
                                    ELSE ParseOk(<<>>, elsifs.current)
                            IN IF ~else_block.ok THEN else_block
                               ELSE IF Parser_peek(tokens, else_block.current).t # "End"
                               THEN ParseErr(else_block.current, "ParseError")
                               ELSE ParseOk(Statement_IfStatement(condition.v, then_block.v,
                                                                  elsifs.v, else_block.v),
                                            statement_end(tokens,
                                                Parser_advance(tokens, else_block.current)))

repeat_statement(tokens, current, d) ==
    LET times == self_expression(tokens, Parser_advance(tokens, current), d)
    IN IF ~times.ok THEN times
       ELSE IF Parser_peek(tokens, times.current).t # "Times"
       THEN ParseErr(times.current, "ParseError")
       ELSE LET c1 == Parser_advance(tokens, times.current)
            IN IF Parser_peek(tokens, c1).t # "Do" THEN ParseErr(c1, "ParseError")
               ELSE LET body == self_block_until(tokens,
                                    skip_newlines(tokens, Parser_advance(tokens, c1)),
                                    {"End"}, <<>>, d)
                    IN IF ~body.ok THEN body
                       ELSE IF Parser_peek(tokens, body.current).t # "End"
                       THEN ParseErr(body.current, "ParseError")
                       ELSE ParseOk(Statement_RepeatStatement(times.v, body.v),
                                    statement_end(tokens, Parser_advance(tokens, body.current)))

when_statement(tokens, current, d) ==
    LET c1 == Parser_advance(tokens, current)
        event == CASE Parser_peek(tokens, c1).t = "Clicked" ->
                          ParseOk(Event_Clicked, Parser_advance(tokens, c1))
                   [] Parser_peek(tokens, c1).t = "Idle" ->
                          LET c2 == Parser_advance(tokens, c1)
                          IN IF Parser_peek(tokens, c2).t # "Greater"
                             THEN ParseErr(c2, "ParseError")
                             ELSE LET time == self_expression(tokens, Parser_advance(tokens, c2), d)
                                  IN IF time.ok THEN ParseOk(Event_Idle(time.v), time.current)
                                     ELSE time
                   [] OTHER -> ParseErr(c1, "ParseError")
    IN IF ~event.ok THEN event
       ELSE IF Parser_peek(tokens, event.current).t # "Do"
       THEN ParseErr(event.current, "ParseError")
       ELSE LET body == self_block_until(tokens,
                            skip_newlines(tokens, Parser_advance(tokens, event.current)),
                            {"End"}, <<>>, d)
            IN IF ~body.ok THEN body
               ELSE IF Parser_peek(tokens, body.current).t # "End"
               THEN ParseErr(body.current, "ParseError")
               ELSE ParseOk(Statement_WhenStatement(event.v, body.v),
                            statement_end(tokens, Parser_advance(tokens, body.current)))

return_statement(tokens, current, d) ==
    LET value == self_expression(tokens, Parser_advance(tokens, current), d)
    IN IF ~value.ok THEN value
       ELSE ParseOk(Statement_ReturnStatement(value.v), statement_end(tokens, value.current))

expression_statement(tokens, current, d) ==
    LET expr == self_expression(tokens, current, d)
    IN IF ~expr.ok THEN expr
       ELSE ParseOk(Statement_ExpressionStatement(expr.v), statement_end(tokens, expr.current))

statement(tokens, current, d) ==
    LET t == Parser_peek(tokens, current).t
    IN CASE t \in {"Frame", "Frames", "Num", "Text"} -> variable_declaration(tokens, current, d)
         [] t = "If" -> if_statement(tokens, current, d)
         [] t = "Repeat" -> repeat_statement(tokens, current, d)
         [] t = "When" -> when_statement(tokens, current, d)
         [] t = "Return" -> return_statement(tokens, current, d)
         [] OTHER -> expression_statement(tokens, current, d)

block_until(tokens, current, terminators, statements, d) ==
    IF Parser_is_at_end(tokens, current) \/ Parser_peek(tokens, current).t \in terminators
    THEN ParseOk(statements, current)
    ELSE IF Parser_peek(tokens, current).t = "Newline"
    THEN self_block_until(tokens, Parser_advance(tokens, current), terminators, statements, d)
    ELSE LET s == self_statement(tokens, current, d)
         IN IF ~s.ok THEN s
            ELSE self_block_until(tokens, s.current, terminators, Append(statements, s.v), d)


expression(tokens, current, d) == self_binary_level(tokens, current, d, 1)

\* logical_or, logical_and, equality, comparison, term and factor are levels
\* 1 to 6 of one loop: an operand of the next level, then, while the next
\* token is one of the level's operators, that operator and another operand.
\* The first operand descends through every level below down to power
\* (level 7), where it is parsed; on the way back the loops of levels 6 down
\* to `level` run on it in turn, each on what the level below returned.
binary_level(tokens, current, d, level) ==
    self_binary_return(tokens, d, 6, level, self_power(tokens, current, d))

\* the way back of the descent: `first` is what level `from + 1` returned
binary_return(tokens, d, from, level, first) ==
    IF ~first.ok \/ from < level THEN first
    ELSE self_binary_return(tokens, d, from - 1, level,
                            self_binary_loop(tokens, first.current, d, from, first.v))

binary_loop(tokens, current, d, level, expr) ==
    IF Parser_peek(tokens, current).t \in LevelTokens[level]
    THEN LET c1 == Parser_advance(tokens, current)
             operator == BinaryOperatorOf(Parser_previous(tokens, c1).t)
             right == self_binary_level(tokens, c1, d, level + 1)
         IN IF ~right.ok THEN right
            ELSE self_binary_loop(tokens, right.current, d, level,
                             Expression_Binary(expr, operator, right.v))
    ELSE ParseOk(expr, current)

power(tokens, current, d) ==
    LET expr == self_unary(tokens, current, d)
    IN IF ~expr.ok THEN expr
       ELSE IF Parser_peek(tokens, expr.current).t = "Caret"
       THEN LET right == self_power(tokens, Parser_advance(tokens, expr.current), d)
            IN IF ~right.ok THEN right
               ELSE ParseOk(Expression_Binary(expr.v, "Power", right.v), right.current)
       ELSE expr

unary(tokens, current, d) ==
    IF Parser_peek(tokens, current).t \in {"Not", "Minus"}
    THEN LET expr == self_unary(tokens, Parser_advance(tokens, current), d)
         IN IF ~expr.ok THEN expr
            ELSE ParseOk(Expression_Unary(Parser_peek(tokens, current).t, expr.v), expr.current)
    ELSE self_call(tokens, current, d)

call(tokens, current, d) ==
    LET expr == self_primary(tokens, current, d)
    IN IF ~expr.ok THEN expr ELSE self_call_loop(tokens, expr.current, d, expr.v)

call_loop(tokens, current, d, expr) ==
    CASE Parser_peek(tokens, current).t = "LeftParen" ->
             LET args == self_expression_list(tokens, Parser_advance(tokens, current), d + 1, "RightParen")
             IN IF ~args.ok THEN args
                ELSE IF Parser_peek(tokens, args.current).t # "RightParen"
                THEN ParseErr(args.current, "ParseError")
                ELSE IF expr.kind = "Identifier"
                THEN self_call_loop(tokens, Parser_advance(tokens, args.current), d,
                               Expression_FunctionCall(expr.name, args.v))
                ELSE ParseErr(Parser_advance(tokens, args.current), "ParseError")
      [] Parser_peek(tokens, current).t = "LeftBracket" ->
             LET index == self_expression(tokens, Parser_advance(tokens, current), d + 1)
             IN IF ~index.ok THEN index
                ELSE IF Parser_peek(tokens, index.current).t # "RightBracket"
                THEN ParseErr(index.current, "ParseError")
                ELSE self_call_loop(tokens, Parser_advance(tokens, index.current), d,
                               Expression_Index(expr, index.v))
      [] OTHER -> ParseOk(expr, current)

\* argument_list (closer ")") and the elements of array_literal (closer "]"):
\* expressions separated by commas, a trailing comma allowed
expression_list(tokens, current, d, closer) ==
    IF Parser_peek(tokens, current).t # closer
    THEN LET first == self_expression(tokens, current, d)
         IN IF ~first.ok THEN first
            ELSE self_expression_list_loop(tokens, first.current, d, closer, <<first.v>>)
    ELSE ParseOk(<<>>, current)

expression_list_loop(tokens, current, d, closer, elements) ==
    IF Parser_peek(tokens, current).t = "Comma"
    THEN LET c1 == Parser_advance(tokens, current)
         IN IF Parser_peek(tokens, c1).t = closer THEN ParseOk(elements, c1)
            ELSE LET e == self_expression(tokens, c1, d)
                 IN IF ~e.ok THEN e
                    ELSE self_expression_list_loop(tokens, e.current, d, closer, Append(elements, e.v))
    ELSE ParseOk(elements, current)


array_literal(tokens, current, d) ==
    LET elements == self_expression_list(tokens, current, d, "RightBracket")
    IN IF ~elements.ok THEN elements
       ELSE IF Parser_peek(tokens, elements.current).t # "RightBracket"
       THEN ParseErr(elements.current, "ParseError")
       ELSE ParseOk(Expression_Array(elements.v), Parser_advance(tokens, elements.current))

\* pattern_generator, animated_generator and cellular_generator: "(" width
\* "," height ")", then for animate `using <identifier>` and for evolve
\* `from <identifier>`, then "{" body "}"
generator(tokens, current, d, kind) ==
    IF Parser_peek(tokens, current).t # "LeftParen" THEN ParseErr(current, "ParseError")
    ELSE LET width == self_expression(tokens, Parser_advance(tokens, current), d)
         IN IF ~width.ok THEN width
            ELSE IF Parser_peek(tokens, width.current).t # "Comma"
            THEN ParseErr(width.current, "ParseError")
            ELSE LET height == self_expression(tokens, Parser_advance(tokens, width.current), d)
                 IN IF ~height.ok THEN height
                    ELSE IF Parser_peek(tokens, height.current).t # "RightParen"
                    THEN ParseErr(height.current, "ParseError")
                    ELSE LET c1 == Parser_advance(tokens, height.current)
                             word == IF kind = "Animate" THEN "Using" ELSE "From"
                             c2 == IF kind = "Pattern" THEN c1 ELSE Parser_advance(tokens, c1)
                             c3 == IF kind = "Pattern" THEN c1 ELSE Parser_advance(tokens, c2)
                             var == Parser_previous(tokens, c3)
                         IN IF kind # "Pattern" /\ Parser_peek(tokens, c1).t # word
                            THEN ParseErr(c1, "ParseError")
                            ELSE IF kind # "Pattern" /\ var.t # "Identifier"
                            THEN ParseErr(c3, "ParseError")
                            ELSE IF Parser_peek(tokens, c3).t # "LeftBrace"
                            THEN ParseErr(c3, "ParseError")
                            ELSE LET body == self_block_until(tokens,
                                                 skip_newlines(tokens, Parser_advance(tokens, c3)),
                                                 {"RightBrace"}, <<>>, d)
                                 IN IF ~body.ok THEN body
                                    ELSE IF Parser_peek(tokens, body.current).t # "RightBrace"
                                    THEN ParseErr(body.current, "ParseError")
                                    ELSE ParseOk(
                                           CASE kind = "Pattern" ->
                                                    Expression_PatternGenerator(width.v, height.v, body.v)
                                             [] kind = "Animate" ->
                                                    Expression_AnimatedGenerator(width.v, height.v,
                                                                                 var.name, body.v)
                                             [] kind = "Evolve" ->
                                                    Expression_CellularGenerator(width.v, height.v,
                                                                                 var.name, body.v),
                                           Parser_advance(tokens, body.current))




primary(tokens, current, d) ==
    IF d > MaxDepth THEN ParseErr(current, "StackOverflow")
    ELSE LET c1 == Parser_advance(tokens, current)
             token == Parser_previous(tokens, c1)
         IN IF c1 = current /\ token.t \in {"LeftParen", "LeftBracket"}
            THEN \* at the end advance() returns the opening token again:
                 \* expression() or array_literal() comes back here
                 ParseErr(current, "StackOverflow")
            ELSE
            CASE token.t = "Number" -> ParseOk(Expression_Number(token.n), c1)
              [] token.t = "String" -> ParseOk(Expression_String(token.s), c1)
              [] token.t = "Identifier" -> ParseOk(Expression_Identifier(token.name), c1)
              [] token.t = "LeftParen" ->
                     LET expr == self_expression(tokens, c1, d + 1)
                     IN IF ~expr.ok THEN expr
                        ELSE IF Parser_peek(tokens, expr.current).t # "RightParen"
                        THEN ParseErr(expr.current, "ParseError")
                        ELSE ParseOk(expr.v, Parser_advance(tokens, expr.current))
              [] token.t = "LeftBracket" -> array_literal(tokens, c1, d + 1)
              [] token.t = "Pattern" -> self_generator(tokens, c1, d + 1, "Pattern")
              [] token.t = "Animate" -> self_generator(tokens, c1, d + 1, "Animate")
              [] token.t = "Evolve" -> self_generator(tokens, c1, d + 1, "Evolve")
              [] OTHER -> ParseErr(c1, "ParseError")

Parser_call(c) ==
    CASE c.method = "statement" ->
           statement(c.args[1], c.args[2], c.args[3])
      [] c.method = "block_until" ->
           block_until(c.args[1], c.args[2], c.args[3], c.args[4], c.args[5])
      [] c.method = "elsif_blocks_loop" ->
           elsif_blocks_loop(c.args[1], c.args[2], c.args[3], c.args[4])
      [] c.method = "expression" ->
           expression(c.args[1], c.args[2], c.args[3])
      [] c.method = "binary_level" ->
           binary_level(c.args[1], c.args[2], c.args[3], c.args[4])
      [] c.method = "binary_return" ->
           binary_return(c.args[1], c.args[2], c.args[3], c.args[4], c.args[5])
      [] c.method = "binary_loop" ->
           binary_loop(c.args[1], c.args[2], c.args[3], c.args[4], c.args[5])
      [] c.method = "power" ->
           power(c.args[1], c.args[2], c.args[3])
      [] c.method = "unary" ->
           unary(c.args[1], c.args[2], c.args[3])
      [] c.method = "call" ->
           call(c.args[1], c.args[2], c.args[3])
      [] c.method = "call_loop" ->
           call_loop(c.args[1], c.args[2], c.args[3], c.args[4])
      [] c.method = "primary" ->
           primary(c.args[1], c.args[2], c.args[3])
      [] c.method = "expression_list" ->
           expression_list(c.args[1], c.args[2], c.args[3], c.args[4])
      [] c.method = "expression_list_loop" ->
           expression_list_loop(c.args[1], c.args[2], c.args[3], c.args[4], c.args[5])
      [] c.method = "generator" ->
           generator(c.args[1], c.args[2], c.args[3], c.args[4])

\* ------------------------------------------------------------------ ast (lean)
\* The lean ast shares VariableDeclaration, ExpressionStatement, Number,
\* String, Identifier, Array and FunctionCall with the full one; the nodes
\* below are its own.  else_body is <<>> for None and <<body>> for Some(body).
Lean_Statement_Assignment(name, value) == [kind |-> "Assignment", name |-> name, value |-> value]

Lean_Statement_RepeatLoop(count, body) == [kind |-> "RepeatLoop", count |-> count, body |-> body]

Lean_Statement_IfStatement(condition, then_body, else_body) ==
    [kind |-> "IfStatement", condition |-> condition, then_body |-> then_body,
     else_body |-> else_body]

Lean_Expression_BinaryOperation(left, operator, right) ==
    [kind |-> "BinaryOperation", left |-> left, operator |-> operator, right |-> right]

Lean_Expression_PatternGenerator(width, height, body, return_expr) ==
    [kind |-> "PatternGenerator", width |-> width, height |-> height, body |-> body,
     return_expr |-> return_expr]

Lean_Expression_TernaryOperation(condition, true_expr, false_expr) ==
    [kind |-> "TernaryOperation", condition |-> condition, true_expr |-> true_expr,
     false_expr |-> false_expr]

\* Frame::new(data) of the lean ast
Lean_Frame_new(data) ==
    IF Len(data) = 0 THEN [width |-> 0, height |-> 0, pixels |-> <<>>]
    ELSE [width |-> Len(data[1]), height |-> Len(data), pixels |-> data]

\* ------------------------------------------------------------------ builtins (lean)
\* random, sin, cos, sqrt and atan2 are registered but have no case in
\* lean_builtins_call: no modelled program calls them.
LeanBuiltinNames ==
    {"play", "loop", "add_frame", "loop_speed", "random", "floor", "ceil", "abs",
     "sin", "cos", "sqrt", "atan2", "create_frame", "get_pixel", "set_pixel"}

lean_has_function(name) == name \in LeanBuiltinNames

lean_animation_play(args) ==
    IF Len(args) # 1 THEN PErr("ArgumentError")
    ELSE IF args[1].t \in {"Frames", "Frame"} THEN POk(Value_Number(F64(1)))
    ELSE PErr("TypeError")

lean_animation_loop(args) == POk(Value_Number(F64(1)))

lean_math(args, result) ==
    IF Len(args) # 1 THEN PErr("ArgumentError")
    ELSE IF args[1].t = "Number" THEN POk(Value_Number(result))
    ELSE PErr("TypeError")

lean_create_frame(args) ==
    IF Len(args) # 2 THEN PErr("ArgumentError")
    ELSE IF args[1].t # "Number" \/ args[2].t # "Number" THEN PErr("TypeError")
    ELSE POk(Value_Frame(Lean_Frame_new(
             [r \in 1..CastUnsigned(args[2].n) |-> [c \in 1..CastUnsigned(args[1].n) |-> FALSE]])))

lean_get_pixel(args) ==
    IF Len(args) # 3 THEN PErr("ArgumentError")
    ELSE IF args[1].t # "Frame" \/ args[2].t # "Number" \/ args[3].t # "Number"
    THEN PErr("TypeError")
    ELSE LET x == CastUnsigned(args[2].n)
             y == CastUnsigned(args[3].n)
             data == args[1].f.pixels
         IN IF y < Len(data) /\ x < Len(data[1])
            THEN POk(Value_Number(IF data[y + 1][x + 1] THEN F64(1) ELSE F64(0)))
            ELSE POk(Value_Number(F64(0)))

lean_set_pixel(args) == POk(Value_Number(F64(1)))

add_frame_func(args) ==
    IF Len(args) # 2 THEN PErr("ArgumentError") ELSE POk(Value_Number(F64(1)))

loop_speed_func(args) ==
    IF Len(args) # 2 THEN PErr("ArgumentError")
    ELSE IF args[1].t = "Frames" THEN POk(Value_Number(F64(1)))
    ELSE PErr("TypeError")

lean_builtins_call(name, args) ==
    CASE name = "play" -> lean_animation_play(args)
      [] name = "loop" -> lean_animation_loop(args)
      [] name = "add_frame" -> add_frame_func(args)
      [] name = "loop_speed" -> loop_speed_func(args)
      [] name = "floor" -> lean_math(args, FFloor(args[1].n))
      [] name = "ceil" -> lean_math(args, FCeil(args[1].n))
      [] name = "abs" -> lean_math(args, FAbs(args[1].n))
      [] name = "create_frame" -> lean_create_frame(args)
      [] name = "get_pixel" -> lean_get_pixel(args)
      [] name = "set_pixel" -> lean_set_pixel(args)

\* ------------------------------------------------------------------ Interpreter (lean)
\* The interpreter is the record st of environment (one map of variables),
\* output_frames and frame_duration_ms, plus st.log as in the full build.
Lean_Environment_get(variables, name) ==
    IF name \in DOMAIN variables THEN POk(variables[name]) ELSE PErr("UndefinedVariable")

\* the duration loop_speed stores: `(ms as u64).max(1).min(10000)`
loop_speed_duration(ms) ==
    LET n == CastUnsigned(ms)
        at_least == IF n < 1 THEN 1 ELSE n
    IN IF at_least > 10000 THEN 10000 ELSE at_least

\* the arm of a BinaryOperation whose operands are both numbers
lean_binary_operator(l, op, r) ==
    LET bool(b) == POk(Value_Number(IF b THEN F64(1) ELSE F64(0)))
        d == FSub(l, r)
    IN CASE op = "Add" -> POk(Value_Number(FAdd(l, r)))
         [] op = "Subtract" -> POk(Value_Number(FSub(l, r)))
         [] op = "Multiply" -> POk(Value_Number(FMul(l, r)))
         [] op = "Divide" ->
                IF IsZero(r) THEN PErr("DivisionByZero") ELSE POk(Value_Number(FDiv(l, r)))
         [] op = "Modulo" -> POk(Value_Number(FRem(l, r)))
         [] op = "Greater" -> bool(FLt(r, l))
         [] op = "Less" -> bool(FLt(l, r))
         [] op = "GreaterEqual" -> bool(FLe(r, l))
         [] op = "LessEqual" -> bool(FLe(l, r))
         [] op = "Equal" -> bool(~IsNaN(d) /\ d.p = 0)
         [] op = "NotEqual" -> bool(~IsNaN(d) /\ d.p # 0)
         [] op = "And" -> bool(~IsZero(l) /\ ~IsZero(r))
         [] op = "Or" -> bool(~IsZero(l) \/ ~IsZero(r))

\* the value of a lean array literal whose elements evaluated to `values`
lean_array_value(values) ==
    IF \A i \in 1..Len(values) : values[i].t = "Number"
    THEN LET frame == Frame_from_array(<<[i \in 1..Len(values) |-> ~IsZero(values[i].n)]>>)
         IN IF frame.ok THEN POk(Value_Frame(frame.v)) ELSE frame
    ELSE IF \A i \in 1..Len(values) : values[i].t = "Frame"
    THEN IF Len(values) = 1 THEN POk(values[1])
         ELSE IF \A i \in 1..Len(values) : values[i].f.height = 1
         THEN LET frame == Frame_from_array([i \in 1..Len(values) |-> values[i].f.pixels[1]])
              IN IF frame.ok THEN POk(Value_Frame(frame.v)) ELSE frame
         ELSE POk(Value_Frames([i \in 1..Len(values) |-> values[i].f]))
    ELSE PErr("TypeError")

\* `self.method(...)` inside the lean interpreter: the methods reach each
\* other through one entry
RECURSIVE Lean_Interpreter_call(_)

self_lean_execute_statement(st0, stmt) ==
    Lean_Interpreter_call([method |-> "lean_execute_statement", args |-> <<st0, stmt>>])

self_lean_execute_all(st, statements) ==
    Lean_Interpreter_call([method |-> "lean_execute_all", args |-> <<st, statements>>])

self_lean_repeat(st, body, i, repeat_count) ==
    Lean_Interpreter_call([method |-> "lean_repeat", args |-> <<st, body, i, repeat_count>>])

self_lean_evaluate_expression(st, expr) ==
    Lean_Interpreter_call([method |-> "lean_evaluate_expression", args |-> <<st, expr>>])

self_lean_evaluate_all(st, exprs) ==
    Lean_Interpreter_call([method |-> "lean_evaluate_all", args |-> <<st, exprs>>])

self_lean_pattern_pixels(st, frame_data, k, w, h, body, return_expr) ==
    Lean_Interpreter_call([method |-> "lean_pattern_pixels", args |-> <<st, frame_data, k, w, h, body, return_expr>>])


\* the special handling of add_frame, loop_speed, play and loop that follows
\* the evaluation of an expression statement
lean_intercept(st0, name, args) ==
    LET st == Log(st0, "intercept", "", name)
    IN CASE name = "add_frame" ->
               IF Len(args) = 2 /\ args[1].kind = "Identifier"
               THEN LET frame_value == self_lean_evaluate_expression(st, args[2])
                    IN IF ~frame_value.ok THEN frame_value
                       ELSE IF frame_value.v.t = "Frame"
                       THEN LET existing == Lean_Environment_get(frame_value.st.environment, args[1].name)
                                frames == IF existing.ok /\ existing.v.t = "Frames"
                                          THEN existing.v.fs ELSE <<>>
                            IN ROk([frame_value.st EXCEPT !.environment =
                                       Put(@, args[1].name,
                                           Value_Frames(Append(frames, frame_value.v.f)))], NoneV)
                       ELSE ROk(frame_value.st, NoneV)
               ELSE ROk(st, NoneV)
         [] name = "loop_speed" ->
               IF Len(args) = 2
               THEN LET frame_value == self_lean_evaluate_expression(st, args[1])
                    IN IF ~frame_value.ok THEN frame_value
                       ELSE LET timing_value == self_lean_evaluate_expression(frame_value.st, args[2])
                            IN IF ~timing_value.ok THEN timing_value
                               ELSE ROk([timing_value.st EXCEPT
                                          !.output_frames =
                                              IF frame_value.v.t = "Frames" THEN frame_value.v.fs
                                              ELSE IF frame_value.v.t = "Frame" THEN <<frame_value.v.f>>
                                              ELSE @,
                                          !.frame_duration_ms =
                                              IF timing_value.v.t = "Number"
                                              THEN loop_speed_duration(timing_value.v.n)
                                              ELSE @], NoneV)
               ELSE ROk(st, NoneV)
         [] name \in {"play", "loop"} ->
               IF Len(args) > 0
               THEN LET frame_value == self_lean_evaluate_expression(st, args[1])
                    IN IF ~frame_value.ok THEN frame_value
                       ELSE ROk([frame_value.st EXCEPT
                                  !.output_frames =
                                      IF frame_value.v.t = "Frames" THEN frame_value.v.fs
                                      ELSE IF frame_value.v.t = "Frame" THEN <<frame_value.v.f>>
                                      ELSE @], NoneV)
               ELSE ROk(st, NoneV)

lean_execute_statement(st0, stmt) ==
    LET st == Log(st0, "stmt", stmt.kind, StatementName(stmt))
    IN CASE stmt.kind \in {"VariableDeclaration", "Assignment"} ->
               LET val == self_lean_evaluate_expression(st, stmt.value)
               IN IF ~val.ok THEN val
                  ELSE ROk([val.st EXCEPT !.environment = Put(@, stmt.name, val.v)], NoneV)
         [] stmt.kind = "ExpressionStatement" ->
               LET result == self_lean_evaluate_expression(st, stmt.expr)
               IN IF ~result.ok THEN result
                  ELSE IF stmt.expr.kind = "FunctionCall"
                          /\ stmt.expr.name \in {"add_frame", "loop_speed", "play", "loop"}
                  THEN lean_intercept(result.st, stmt.expr.name, stmt.expr.args)
                  ELSE ROk(result.st, NoneV)
         [] stmt.kind = "IfStatement" ->
               LET condition_val == self_lean_evaluate_expression(st, stmt.condition)
               IN IF ~condition_val.ok THEN condition_val
                  ELSE IF condition_val.v.t # "Number" THEN RErr(condition_val.st, "TypeError")
                  ELSE IF ~IsZero(condition_val.v.n)
                  THEN self_lean_execute_all(condition_val.st, stmt.then_body)
                  ELSE IF Len(stmt.else_body) > 0
                  THEN self_lean_execute_all(condition_val.st, stmt.else_body[1])
                  ELSE ROk(condition_val.st, NoneV)
         [] stmt.kind = "RepeatLoop" ->
               LET count_value == self_lean_evaluate_expression(st, stmt.count)
               IN IF ~count_value.ok THEN count_value
                  ELSE IF count_value.v.t # "Number" THEN RErr(count_value.st, "TypeError")
                  ELSE self_lean_repeat(count_value.st, stmt.body, 0, CastUnsigned(count_value.v.n))

\* `for stmt in body { self.execute_statement(stmt)?; }`
lean_execute_all(st, statements) ==
    IF Len(statements) = 0 THEN ROk(st, NoneV)
    ELSE LET r == self_lean_execute_statement(st, Head(statements))
         IN IF ~r.ok THEN r ELSE self_lean_execute_all(r.st, Tail(statements))

\* `for i in 0..repeat_count`, from iteration i on
lean_repeat(st, body, i, repeat_count) ==
    IF i >= repeat_count THEN ROk(st, NoneV)
    ELSE LET r == self_lean_execute_all(
                      [st EXCEPT !.environment = Put(@, "time", Value_Number(F64(i)))], body)
         IN IF ~r.ok THEN r ELSE self_lean_repeat(r.st, body, i + 1, repeat_count)

lean_evaluate_all(st, exprs) ==
    IF Len(exprs) = 0 THEN ROk(st, <<>>)
    ELSE LET first == self_lean_evaluate_expression(st, Head(exprs))
         IN IF ~first.ok THEN first
            ELSE LET rest == self_lean_evaluate_all(first.st, Tail(exprs))
                 IN IF ~rest.ok THEN rest
                    ELSE ROk(rest.st, <<first.v>> \o rest.v)

\* the pixels of a pattern from the k-th on, in row-major order; row and col
\* are defined in the one environment of the interpreter
lean_pattern_pixels(st, frame_data, k, w, h, body, return_expr) ==
    IF k >= w * h THEN ROk(st, Value_Frame(Lean_Frame_new(frame_data)))
    ELSE LET row == k \div w
             col == k % w
             with_coords == [st EXCEPT !.environment =
                                Put(Put(@, "row", Value_Number(F64(row))),
                                    "col", Value_Number(F64(col)))]
             b == self_lean_execute_all(with_coords, body)
         IN IF ~b.ok THEN b
            ELSE LET pixel_value == self_lean_evaluate_expression(b.st, return_expr)
                 IN IF ~pixel_value.ok THEN pixel_value
                    ELSE IF pixel_value.v.t # "Number" THEN RErr(pixel_value.st, "TypeError")
                    ELSE self_lean_pattern_pixels(pixel_value.st,
                             [frame_data EXCEPT ![row + 1][col + 1] = ~IsZero(pixel_value.v.n)],
                             k + 1, w, h, body, return_expr)

lean_evaluate_expression(st, expr) ==
    CASE expr.kind = "Number" -> ROk(st, Value_Number(expr.n))
      [] expr.kind = "String" -> ROk(st, Value_String(expr.s))
      [] expr.kind = "Identifier" -> Lift(st, Lean_Environment_get(st.environment, expr.name))
      [] expr.kind = "Array" ->
            LET values == self_lean_evaluate_all(st, expr.elements)
            IN IF ~values.ok THEN values ELSE Lift(values.st, lean_array_value(values.v))
      [] expr.kind = "FunctionCall" ->
            LET arg_values == self_lean_evaluate_all(st, expr.args)
            IN IF ~arg_values.ok THEN arg_values
               ELSE IF lean_has_function(expr.name)
               THEN Lift(Log(arg_values.st, "builtin", "", expr.name),
                         lean_builtins_call(expr.name, arg_values.v))
               ELSE RErr(arg_values.st, "UndefinedFunction")
      [] expr.kind = "BinaryOperation" ->
            LET left_val == self_lean_evaluate_expression(st, expr.left)
            IN IF ~left_val.ok THEN left_val
               ELSE LET right_val == self_lean_evaluate_expression(left_val.st, expr.right)
                    IN IF ~right_val.ok THEN right_val
                       ELSE IF left_val.v.t = "Number" /\ right_val.v.t = "Number"
                       THEN Lift(right_val.st,
                                 lean_binary_operator(left_val.v.n, expr.operator, right_val.v.n))
                       ELSE RErr(right_val.st, "TypeError")
      [] expr.kind = "PatternGenerator" ->
            LET width_val == self_lean_evaluate_expression(st, expr.width)
            IN IF ~width_val.ok THEN width_val
               ELSE LET height_val == self_lean_evaluate_expression(width_val.st, expr.height)
                    IN IF ~height_val.ok THEN height_val
                       ELSE IF width_val.v.t # "Number" \/ height_val.v.t # "Number"
                       THEN RErr(height_val.st, "TypeError")
                       ELSE LET w == CastUnsigned(width_val.v.n)
                                h == CastUnsigned(height_val.v.n)
                            IN self_lean_pattern_pixels(height_val.st,
                                   [r \in 1..h |-> [c \in 1..w |-> FALSE]],
                                   0, w, h, expr.body, expr.return_expr)
      [] expr.kind = "TernaryOperation" ->
            LET condition_val == self_lean_evaluate_expression(st, expr.condition)
            IN IF ~condition_val.ok THEN condition_val
               ELSE IF condition_val.v.t # "Number" THEN RErr(condition_val.st, "TypeError")
               ELSE IF ~IsZero(condition_val.v.n)
               THEN self_lean_evaluate_expression(condition_val.st, expr.true_expr)
               ELSE self_lean_evaluate_expression(condition_val.st, expr.false_expr)

Lean_Interpreter_call(c) ==
    CASE c.method = "lean_execute_statement" ->
           lean_execute_statement(c.args[1], c.args[2])
      [] c.method = "lean_execute_all" ->
           lean_execute_all(c.args[1], c.args[2])
      [] c.method = "lean_repeat" ->
           lean_repeat(c.args[1], c.args[2], c.args[3], c.args[4])
      [] c.method = "lean_evaluate_expression" ->
           lean_evaluate_expression(c.args[1], c.args[2])
      [] c.method = "lean_evaluate_all" ->
           lean_evaluate_all(c.args[1], c.args[2])
      [] c.method = "lean_pattern_pixels" ->
           lean_pattern_pixels(c.args[1], c.args[2], c.args[3], c.args[4], c.args[5], c.args[6], c.args[7])

\* ------------------------------------------------------------------ Programs
\* The scripts handed to the full build as source text, character by
\* character.
\* num x = 0\nwhen clicked do x = x + 1 end
Script_counter ==
    <<"n", "u", "m", " ", "x", " ", "=", " ", "0", "\n", "w", "h", "e", "n", " ", "c",
      "l", "i", "c", "k", "e", "d", " ", "d", "o", " ", "x", " ", "=", " ", "x", " ",
      "+", " ", "1", " ", "e", "n", "d">>

\* play([eye_open, eye_closed]);
Script_play ==
    <<"p", "l", "a", "y", "(", "[", "e", "y", "e", "_", "o", "p", "e", "n", ",", " ",
      "e", "y", "e", "_", "c", "l", "o", "s", "e", "d", "]", ")", ";">>

\* loop(fs)
Script_loop ==
    <<"l", "o", "o", "p", "(", "f", "s", ")">>

\* stop()
Script_stop ==
    <<"s", "t", "o", "p", "(", ")">>

\* num a = 1\nnum b = a / 0\nnum c = 2
Script_divide ==
    <<"n", "u", "m", " ", "a", " ", "=", " ", "1", "\n", "n", "u", "m", " ", "b", " ",
      "=", " ", "a", " ", "/", " ", "0", "\n", "n", "u", "m", " ", "c", " ", "=", " ",
      "2">>

\* num a = 7 % 0
Script_modulo ==
    <<"n", "u", "m", " ", "a", " ", "=", " ", "7", " ", "%", " ", "0">>

\* num x = 0\nwhen clicked do num x = x + 1 end\nwhen idle > 5 do num h = 1 end
Script_handlers ==
    <<"n", "u", "m", " ", "x", " ", "=", " ", "0", "\n", "w", "h", "e", "n", " ", "c",
      "l", "i", "c", "k", "e", "d", " ", "d", "o", " ", "n", "u", "m", " ", "x", " ",
      "=", " ", "x", " ", "+", " ", "1", " ", "e", "n", "d", "\n", "w", "h", "e", "n",
      " ", "i", "d", "l", "e", " ", ">", " ", "5", " ", "d", "o", " ", "n", "u", "m",
      " ", "h", " ", "=", " ", "1", " ", "e", "n", "d">>

\* // nothing
Script_comment ==
    <<"/", "/", " ", "n", "o", "t", "h", "i", "n", "g">>

\* text t = "ab
Script_unterminated ==
    <<"t", "e", "x", "t", " ", "t", " ", "=", " ", "\"", "a", "b">>

\* num a = (
Script_open_paren ==
    <<"n", "u", "m", " ", "a", " ", "=", " ", "(">>

\* frame f = [
Script_open_bracket ==
    <<"f", "r", "a", "m", "e", " ", "f", " ", "=", " ", "[">>

\* num a = (1
Script_unclosed_paren ==
    <<"n", "u", "m", " ", "a", " ", "=", " ", "(", "1">>

\* frame f = pattern(3, 3) { return row == col }
Program_diagonal ==
    <<Statement_VariableDeclaration("Frame", "f",
          Expression_PatternGenerator(Expression_Number(F64(3)), Expression_Number(F64(3)),
              <<Statement_ReturnStatement(
                    Expression_Binary(Expression_Identifier("row"), "Equal",
                                      Expression_Identifier("col")))>>))>>

\* frames fs = [[1, 0], [0, 1]]   play_speed(fs, ms)
Program_play_speed(ms) ==
    <<Statement_VariableDeclaration("Frames", "fs",
          Expression_Array(
              <<Expression_Array(<<Expression_Number(F64(1)), Expression_Number(F64(0))>>),
                Expression_Array(<<Expression_Number(F64(0)), Expression_Number(F64(1))>>)>>)),
      Statement_ExpressionStatement(
          Expression_FunctionCall("play_speed",
              <<Expression_Identifier("fs"), Expression_Number(F64(ms))>>))>>

\* frame g = pattern(2, 1) { abs(0)   return 1 }
Program_call_then_return ==
    <<Statement_VariableDeclaration("Frame", "g",
          Expression_PatternGenerator(Expression_Number(F64(2)), Expression_Number(F64(1)),
              <<Statement_ExpressionStatement(
                    Expression_FunctionCall("abs", <<Expression_Number(F64(0))>>)),
                Statement_ReturnStatement(Expression_Number(F64(1)))>>))>>

\* frames fs = [[1], [0]]   num r = play_speed(fs, 5)
Program_initializer ==
    <<Statement_VariableDeclaration("Frames", "fs",
          Expression_Array(<<Expression_Array(<<Expression_Number(F64(1))>>),
                             Expression_Array(<<Expression_Number(F64(0))>>)>>)),
      Statement_VariableDeclaration("Num", "r",
          Expression_FunctionCall("play_speed",
              <<Expression_Identifier("fs"), Expression_Number(F64(5))>>))>>

\* num k = 5   frame f = pattern(2, 2) { num k = row   return k == col }
Program_shadow ==
    <<Statement_VariableDeclaration("Num", "k", Expression_Number(F64(5))),
      Statement_VariableDeclaration("Frame", "f",
          Expression_PatternGenerator(Expression_Number(F64(2)), Expression_Number(F64(2)),
              <<Statement_VariableDeclaration("Num", "k", Expression_Identifier("row")),
                Statement_ReturnStatement(
                    Expression_Binary(Expression_Identifier("k"), "Equal",
                                      Expression_Identifier("col")))>>))>>

\* frame f = pattern(2, 2) {
\*   repeat 2 times
\*     if row == 0 then return col == 0
\*     elsif col == 0 then return 1
\*     else num w = 0 end
\*     num z = 1
\*   end
\*   return 0
\* }
Program_nested_return ==
    <<Statement_VariableDeclaration("Frame", "f",
          Expression_PatternGenerator(Expression_Number(F64(2)), Expression_Number(F64(2)),
              <<Statement_RepeatStatement(Expression_Number(F64(2)),
                    <<Statement_IfStatement(
                          Expression_Binary(Expression_Identifier("row"), "Equal",
                                            Expression_Number(F64(0))),
                          <<Statement_ReturnStatement(
                                Expression_Binary(Expression_Identifier("col"), "Equal",
                                                  Expression_Number(F64(0))))>>,
                          <<[condition |-> Expression_Binary(Expression_Identifier("col"),
                                                             "Equal", Expression_Number(F64(0))),
                             body |-> <<Statement_ReturnStatement(Expression_Number(F64(1)))>>]>>,
                          <<<<Statement_VariableDeclaration("Num", "w",
                                  Expression_Number(F64(0)))>>>>),
                      Statement_VariableDeclaration("Num", "z", Expression_Number(F64(1)))>>),
                Statement_ReturnStatement(Expression_Number(F64(0)))>>))>>

\* frame z = pattern(0, 2) { return 1 }   frame e = pattern(2, 0) { return 1 }
\* frame a = [1, 0, 1]   frames fs = [a, z]   frame b = fs[1]   frame c = a[0]
\* frame d = rotate(a)   frame g = flip(d)   frame s = place_sprite(a, 1, 1)
\* play(fs)
Program_frame_ops ==
    <<Statement_VariableDeclaration("Frame", "z",
          Expression_PatternGenerator(Expression_Number(F64(0)), Expression_Number(F64(2)),
              <<Statement_ReturnStatement(Expression_Number(F64(1)))>>)),
      Statement_VariableDeclaration("Frame", "e",
          Expression_PatternGenerator(Expression_Number(F64(2)), Expression_Number(F64(0)),
              <<Statement_ReturnStatement(Expression_Number(F64(1)))>>)),
      Statement_VariableDeclaration("Frame", "a",
          Expression_Array(<<Expression_Number(F64(1)), Expression_Number(F64(0)),
                             Expression_Number(F64(1))>>)),
      Statement_VariableDeclaration("Frames", "fs",
          Expression_Array(<<Expression_Identifier("a"), Expression_Identifier("z")>>)),
      Statement_VariableDeclaration("Frame", "b",
          Expression_Index(Expression_Identifier("fs"), Expression_Number(F64(1)))),
      Statement_VariableDeclaration("Frame", "c",
          Expression_Index(Expression_Identifier("a"), Expression_Number(F64(0)))),
      Statement_VariableDeclaration("Frame", "d",
          Expression_FunctionCall("rotate", <<Expression_Identifier("a")>>)),
      Statement_VariableDeclaration("Frame", "g",
          Expression_FunctionCall("flip", <<Expression_Identifier("d")>>)),
      Statement_VariableDeclaration("Frame", "s",
          Expression_FunctionCall("place_sprite",
              <<Expression_Identifier("a"), Expression_Number(F64(1)),
                Expression_Number(F64(1))>>)),
      Statement_ExpressionStatement(
          Expression_FunctionCall("play", <<Expression_Identifier("fs")>>))>>

\* Programs handed to Interpreter::execute of the full build as a syntax tree.
\* frames fs = [[1], [0]]   loop(fs)
Program_loop ==
    <<Statement_VariableDeclaration("Frames", "fs",
          Expression_Array(<<Expression_Array(<<Expression_Number(F64(1))>>),
                             Expression_Array(<<Expression_Number(F64(0))>>)>>)),
      Statement_ExpressionStatement(
          Expression_FunctionCall("loop", <<Expression_Identifier("fs")>>))>>

\* frames fs = [[1], [0], [1]]   play(fs)   stop()
Program_play_stop ==
    <<Statement_VariableDeclaration("Frames", "fs",
          Expression_Array(<<Expression_Array(<<Expression_Number(F64(1))>>),
                             Expression_Array(<<Expression_Number(F64(0))>>),
                             Expression_Array(<<Expression_Number(F64(1))>>)>>)),
      Statement_ExpressionStatement(
          Expression_FunctionCall("play", <<Expression_Identifier("fs")>>)),
      Statement_ExpressionStatement(Expression_FunctionCall("stop", <<>>))>>

\* num a = 0 and 1 / 0
Program_short_circuit ==
    <<Statement_VariableDeclaration("Num", "a",
          Expression_Binary(Expression_Number(F64(0)), "And",
              Expression_Binary(Expression_Number(F64(1)), "Divide",
                                Expression_Number(F64(0)))))>>

\* num a = 1 or 1 / 0
Program_short_circuit_or ==
    <<Statement_VariableDeclaration("Num", "a",
          Expression_Binary(Expression_Number(F64(1)), "Or",
              Expression_Binary(Expression_Number(F64(1)), "Divide",
                                Expression_Number(F64(0)))))>>

\* Programs of the lean build, as the syntax tree its parser hands to execute.
\* frame f = pattern(3, 3) { return row == col }
Lean_diagonal ==
    <<Statement_VariableDeclaration("Frame", "f",
          Lean_Expression_PatternGenerator(Expression_Number(F64(3)), Expression_Number(F64(3)),
              <<>>,
              Lean_Expression_BinaryOperation(Expression_Identifier("row"), "Equal",
                                              Expression_Identifier("col"))))>>

\* num k = 0   frame f = pattern(2, 1) { k = k + 1  return k == 1 }
Lean_counting_pattern ==
    <<Statement_VariableDeclaration("Num", "k", Expression_Number(F64(0))),
      Statement_VariableDeclaration("Frame", "f",
          Lean_Expression_PatternGenerator(Expression_Number(F64(2)), Expression_Number(F64(1)),
              <<Lean_Statement_Assignment("k",
                    Lean_Expression_BinaryOperation(Expression_Identifier("k"), "Add",
                                                    Expression_Number(F64(1))))>>,
              Lean_Expression_BinaryOperation(Expression_Identifier("k"), "Equal",
                                              Expression_Number(F64(1)))))>>

\* num a = 7 % 0
Lean_modulo ==
    <<Statement_VariableDeclaration("Num", "a",
          Lean_Expression_BinaryOperation(Expression_Number(F64(7)), "Modulo",
                                          Expression_Number(F64(0))))>>

\* num a = 1   num b = a / 0   num c = 2
Lean_divide ==
    <<Statement_VariableDeclaration("Num", "a", Expression_Number(F64(1))),
      Statement_VariableDeclaration("Num", "b",
          Lean_Expression_BinaryOperation(Expression_Identifier("a"), "Divide",
                                          Expression_Number(F64(0)))),
      Statement_VariableDeclaration("Num", "c", Expression_Number(F64(2)))>>

\* frames fs = [pattern(1, 2) { return 1 }, pattern(1, 2) { return 0 }]
\* loop_speed(fs, ms)
Lean_loop_speed(ms) ==
    <<Statement_VariableDeclaration("Frames", "fs",
          Expression_Array(
              <<Lean_Expression_PatternGenerator(Expression_Number(F64(1)),
                    Expression_Number(F64(2)), <<>>, Expression_Number(F64(1))),
                Lean_Expression_PatternGenerator(Expression_Number(F64(1)),
                    Expression_Number(F64(2)), <<>>, Expression_Number(F64(0)))>>)),
      Statement_ExpressionStatement(
          Expression_FunctionCall("loop_speed",
              <<Expression_Identifier("fs"), Expression_Number(F64(ms))>>))>>

\* frame f = [1, 0]   loop_speed(f, 50)
Lean_single_frame_speed ==
    <<Statement_VariableDeclaration("Frame", "f",
          Expression_Array(<<Expression_Number(F64(1)), Expression_Number(F64(0))>>)),
      Statement_ExpressionStatement(
          Expression_FunctionCall("loop_speed",
              <<Expression_Identifier("f"), Expression_Number(F64(50))>>))>>

\* num a = 0 and 1 / 0
Lean_short_circuit ==
    <<Statement_VariableDeclaration("Num", "a",
          Lean_Expression_BinaryOperation(Expression_Number(F64(0)), "And",
              Lean_Expression_BinaryOperation(Expression_Number(F64(1)), "Divide",
                                              Expression_Number(F64(0)))))>>

\* frame z = pattern(0, 2) { return 1 }   frame e = pattern(2, 0) { return 1 }
\* frame c = create_frame(2, 0)   frame k = create_frame(0, 2)
\* frame a = [1, 0, 1]   frames fs = [e, a]   loop(fs)
Lean_frame_ops ==
    <<Statement_VariableDeclaration("Frame", "z",
          Lean_Expression_PatternGenerator(Expression_Number(F64(0)), Expression_Number(F64(2)),
              <<>>, Expression_Number(F64(1)))),
      Statement_VariableDeclaration("Frame", "e",
          Lean_Expression_PatternGenerator(Expression_Number(F64(2)), Expression_Number(F64(0)),
              <<>>, Expression_Number(F64(1)))),
      Statement_VariableDeclaration("Frame", "c",
          Expression_FunctionCall("create_frame",
              <<Expression_Number(F64(2)), Expression_Number(F64(0))>>)),
      Statement_VariableDeclaration("Frame", "k",
          Expression_FunctionCall("create_frame",
              <<Expression_Number(F64(0)), Expression_Number(F64(2))>>)),
      Statement_VariableDeclaration("Frame", "a",
          Expression_Array(<<Expression_Number(F64(1)), Expression_Number(F64(0)),
                             Expression_Number(F64(1))>>)),
      Statement_VariableDeclaration("Frames", "fs",
          Expression_Array(<<Expression_Identifier("e"), Expression_Identifier("a")>>)),
      Statement_ExpressionStatement(
          Expression_FunctionCall("loop", <<Expression_Identifier("fs")>>))>>

\* repeat 2 times do
\*   a = time
\*   repeat 3 times do b = time end
\*   c = time
\* end
Lean_nested_repeat ==
    <<Lean_Statement_RepeatLoop(Expression_Number(F64(2)),
          <<Lean_Statement_Assignment("a", Expression_Identifier("time")),
            Lean_Statement_RepeatLoop(Expression_Number(F64(3)),
                <<Lean_Statement_Assignment("b", Expression_Identifier("time"))>>),
            Lean_Statement_Assignment("c", Expression_Identifier("time"))>>)>>

\* frame a = [1, 0]   frame b = [0, 1]
\* frames fs = []   add_frame(fs, a)   add_frame(fs, b)
\* frames g = [a]   add_frame(g, b)
Lean_add_frame ==
    <<Statement_VariableDeclaration("Frame", "a",
          Expression_Array(<<Expression_Number(F64(1)), Expression_Number(F64(0))>>)),
      Statement_VariableDeclaration("Frame", "b",
          Expression_Array(<<Expression_Number(F64(0)), Expression_Number(F64(1))>>)),
      Statement_VariableDeclaration("Frames", "fs", Expression_Array(<<>>)),
      Statement_ExpressionStatement(
          Expression_FunctionCall("add_frame",
              <<Expression_Identifier("fs"), Expression_Identifier("a")>>)),
      Statement_ExpressionStatement(
          Expression_FunctionCall("add_frame",
              <<Expression_Identifier("fs"), Expression_Identifier("b")>>)),
      Statement_VariableDeclaration("Frames", "g",
          Expression_Array(<<Expression_Identifier("a")>>)),
      Statement_ExpressionStatement(
          Expression_FunctionCall("add_frame",
              <<Expression_Identifier("g"), Expression_Identifier("b")>>))>>

\* num a = 0
\* repeat 3 times do num a = a + 1  abs(0)  num b = 1 end
\* if 1 then abs(0)  num c = 1 end
Program_expression_statements ==
    <<Statement_VariableDeclaration("Num", "a", Expression_Number(F64(0))),
      Statement_RepeatStatement(Expression_Number(F64(3)),
          <<Statement_VariableDeclaration("Num", "a",
                Expression_Binary(Expression_Identifier("a"), "Add", Expression_Number(F64(1)))),
            Statement_ExpressionStatement(
                Expression_FunctionCall("abs", <<Expression_Number(F64(0))>>)),
            Statement_VariableDeclaration("Num", "b", Expression_Number(F64(1)))>>),
      Statement_IfStatement(Expression_Number(F64(1)),
          <<Statement_ExpressionStatement(
                Expression_FunctionCall("abs", <<Expression_Number(F64(0))>>)),
            Statement_VariableDeclaration("Num", "c", Expression_Number(F64(1)))>>,
          <<>>, <<>>)>>

\* num x = 0
\* when clicked do num x = x + 1 end
\* frame f = pattern(2, 1) { if col == 1 then return nope end  return 1 }
Program_failing_generator ==
    <<Statement_VariableDeclaration("Num", "x", Expression_Number(F64(0))),
      Statement_WhenStatement(Event_Clicked,
          <<Statement_VariableDeclaration("Num", "x",
                Expression_Binary(Expression_Identifier("x"), "Add",
                                  Expression_Number(F64(1))))>>),
      Statement_VariableDeclaration("Frame", "f",
          Expression_PatternGenerator(Expression_Number(F64(2)), Expression_Number(F64(1)),
              <<Statement_IfStatement(
                    Expression_Binary(Expression_Identifier("col"), "Equal",
                                      Expression_Number(F64(1))),
                    <<Statement_ReturnStatement(Expression_Identifier("nope"))>>,
                    <<>>, <<>>),
                Statement_ReturnStatement(Expression_Number(F64(1)))>>))>>

\* <declaration of p>
\* frame q = evolve(2, 1) from p {
\*   num v = get_pixel(p, row, col)   frame p = [1, 1]   return v
\* }
Program_evolve(declaration) ==
    declaration \o
    <<Statement_VariableDeclaration("Frame", "q",
          Expression_CellularGenerator(Expression_Number(F64(2)), Expression_Number(F64(1)), "p",
              <<Statement_VariableDeclaration("Num", "v",
                    Expression_FunctionCall("get_pixel",
                        <<Expression_Identifier("p"), Expression_Identifier("row"),
                          Expression_Identifier("col")>>)),
                Statement_VariableDeclaration("Frame", "p",
                    Expression_Array(<<Expression_Number(F64(1)), Expression_Number(F64(1))>>)),
                Statement_ReturnStatement(Expression_Identifier("v"))>>))>>

\* frame p = [1, 0]
Declaration_frame ==
    <<Statement_VariableDeclaration("Frame", "p",
          Expression_Array(<<Expression_Number(F64(1)), Expression_Number(F64(0))>>))>>

\* num p = 1
Declaration_number ==
    <<Statement_VariableDeclaration("Num", "p", Expression_Number(F64(1)))>>

\* num x = 0
\* when clicked do num c = 1 end
\* when idle > 5.5 do num h = 1  num x = 2 end
\* when idle > 6 do num k = 1 end
Program_idle_handlers ==
    <<Statement_VariableDeclaration("Num", "x", Expression_Number(F64(0))),
      Statement_WhenStatement(Event_Clicked,
          <<Statement_VariableDeclaration("Num", "c", Expression_Number(F64(1)))>>),
      Statement_WhenStatement(Event_Idle(Expression_Number(Rat(11, 2))),
          <<Statement_VariableDeclaration("Num", "h", Expression_Number(F64(1))),
            Statement_VariableDeclaration("Num", "x", Expression_Number(F64(2)))>>),
      Statement_WhenStatement(Event_Idle(Expression_Number(F64(6))),
          <<Statement_VariableDeclaration("Num", "k", Expression_Number(F64(1)))>>)>>

FromText(name, text) ==
    [name |-> name, variant |-> "full", from |-> "text", text |-> text, program |-> <<>>]

FromTree(name, variant, program) ==
    [name |-> name, variant |-> variant, from |-> "tree", text |-> <<>>, program |-> program]

\* what the host may hand to the interpreter
InputLibrary ==
    <<FromTree("diagonal", "full", Program_diagonal),
      FromText("counter", Script_counter),
      FromText("play", Script_play),
      FromText("loop", Script_loop),
      FromText("stop", Script_stop),
      FromTree("speed_0", "full", Program_play_speed(0)),
      FromTree("speed_50000", "full", Program_play_speed(50000)),
      FromTree("speed_40", "full", Program_play_speed(40)),
      FromText("divide", Script_divide),
      FromText("modulo", Script_modulo),
      FromText("handlers", Script_handlers),
      FromTree("call_then_return", "full", Program_call_then_return),
      FromTree("initializer", "full", Program_initializer),
      FromText("comment", Script_comment),
      FromTree("shadow", "full", Program_shadow),
      FromText("unterminated", Script_unterminated),
      FromText("open_paren", Script_open_paren),
      FromText("open_bracket", Script_open_bracket),
      FromText("unclosed_paren", Script_unclosed_paren),
      FromTree("loop_tree", "full", Program_loop),
      FromTree("play_stop_tree", "full", Program_play_stop),
      FromTree("short_circuit", "full", Program_short_circuit),
      FromTree("nested_return", "full", Program_nested_return),
      FromTree("frame_ops", "full", Program_frame_ops),
      FromTree("short_circuit_or", "full", Program_short_circuit_or),
      FromTree("idle_handlers", "full", Program_idle_handlers),
      FromTree("evolve", "full", Program_evolve(Declaration_frame)),
      FromTree("evolve_number", "full", Program_evolve(Declaration_number)),
      FromTree("evolve_unbound", "full", Program_evolve(<<>>)),
      FromTree("failing_generator", "full", Program_failing_generator),
      FromTree("expression_statements", "full", Program_expression_statements),
      FromTree("diagonal", "lean", Lean_diagonal),
      FromTree("counting_pattern", "lean", Lean_counting_pattern),
      FromTree("modulo", "lean", Lean_modulo),
      FromTree("divide", "lean", Lean_divide),
      FromTree("speed_0", "lean", Lean_loop_speed(0)),
      FromTree("speed_50000", "lean", Lean_loop_speed(50000)),
      FromTree("speed_250", "lean", Lean_loop_speed(250)),
      FromTree("single_frame_speed", "lean", Lean_single_frame_speed),
      FromTree("short_circuit", "lean", Lean_short_circuit),
      FromTree("frame_ops", "lean", Lean_frame_ops),
      FromTree("nested_repeat", "lean", Lean_nested_repeat),
      FromTree("add_frame", "lean", Lean_add_frame)>>

\* ------------------------------------------------------------------ The host
\* One run: the host builds an interpreter, hands it a script (tokenize,
\* parse, execute) and, in the full build, then calls update and the event
\* entry points in any order.
VARIABLES input, phase, position, tokens, current, program, pc, result, interpreter, clicks, idles,
          handler_result, operation, returned, daemon

vars == <<input, phase, position, tokens, current, program, pc, result, interpreter, clicks, idles,
          handler_result, operation, returned, daemon>>

\* SystemTime::now() in milliseconds when Interpreter::new() runs
StartTimes == {0, 150}

\* the delta_ms the host passes to update
Deltas == {40, 60, 100}

\* the idle_time the host passes to handle_idle_event
IdleTimes == {5, 7}

\* `operation` is the event entry point the host called last, with its
\* argument; none so far
NotCalled == [op |-> "none"]

NotReturned == [returned |-> FALSE]

\* the state the commands of main.rs keep outside the process: the files
\* current.txt and daemon.pid of the config directory (<<>> when the file
\* does not exist) and the GUI processes that are alive; `spawned` is how
\* many processes have been spawned so far
NoDaemon == [current_txt |-> <<>>, daemon_pid |-> <<>>, processes |-> {}, spawned |-> 0]

Interpreter_new(current_time) ==
    [environment |-> Environment_new, event_handlers |-> EmptyMap,
     animation_state |-> AnimationState_None, output_frames |-> <<>>,
     current_time |-> current_time, log |-> <<>>]

Lean_Interpreter_new ==
    [environment |-> EmptyMap, output_frames |-> <<>>, frame_duration_ms |-> 100,
     log |-> <<>>]

\* the interpreter at the start of a host call: st.log starts empty
Entered == [interpreter EXCEPT !.log = <<>>]

Init ==
    /\ \E i \in DOMAIN InputLibrary : input = InputLibrary[i]
    /\ phase = "source"
    /\ position = 0 /\ tokens = <<>> /\ current = 0
    /\ program = <<>>
    /\ pc = 1
    /\ result = "None"
    /\ \/ input.variant = "full" /\ \E t \in StartTimes : interpreter = Interpreter_new(t)
       \/ input.variant = "lean" /\ interpreter = Lean_Interpreter_new
    /\ clicks = 0
    /\ idles = 0
    /\ handler_result = "None"
    /\ operation = NotCalled
    /\ returned = NotReturned
    /\ daemon = NoDaemon

\* one turn of the loop of execute() as it would be if a failure were noted
\* and the loop went on
execute_turn_continue(r, at) ==
    [pc |-> at + 1, phase |-> "program", result |-> IF r.ok THEN "None" ELSE r.err]

\* what one turn of the loop of execute() decides: `?` returns the failure,
\* otherwise the loop goes on to the next statement
execute_turn(r, at) ==
    IF r.ok THEN [pc |-> at + 1, phase |-> "program", result |-> "None"]
    ELSE [pc |-> at, phase |-> "done", result |-> r.err]

\* one turn of the loop of tokenize(): the next token
Tokenize ==
    /\ phase = "source" /\ input.from = "text"
    /\ LET token == next_token(input.text, position)
       IN /\ position' = token.position
          /\ tokens' = IF token.ok THEN Append(tokens, token.tok) ELSE <<>>
          /\ phase' = IF ~token.ok THEN "rejected"
                      ELSE IF token.tok.t = "Eof" THEN "tokens" ELSE "source"
          /\ result' = IF token.ok THEN "None" ELSE token.err
    /\ UNCHANGED <<operation, returned, daemon, input, current, program, pc, interpreter, clicks, idles, handler_result>>

\* one turn of the loop of parse(): the end of the tokens, a newline to skip,
\* or the next statement
Parse ==
    /\ phase = "tokens"
    /\ IF Parser_is_at_end(tokens, current)
       THEN phase' = "program" /\ UNCHANGED <<current, program, result>>
       ELSE IF Parser_peek(tokens, current).t = "Newline"
       THEN /\ current' = Parser_advance(tokens, current)
            /\ UNCHANGED <<phase, program, result>>
       ELSE LET s == self_statement(tokens, current, 0)
            IN /\ current' = s.current
               /\ program' = IF s.ok THEN Append(program, s.v) ELSE <<>>
               /\ phase' = IF s.ok THEN "tokens" ELSE "rejected"
               /\ result' = IF s.ok THEN "None" ELSE s.err
    /\ UNCHANGED <<operation, returned, daemon, input, position, tokens, pc, interpreter, clicks, idles, handler_result>>

LoadProgram ==
    /\ phase = "source" /\ input.from = "tree"
    /\ program' = input.program
    /\ phase' = "program"
    /\ UNCHANGED <<operation, returned, daemon, input, position, current, tokens, pc, result, interpreter, clicks, idles, handler_result>>

\* one turn of the loop of execute(): statement pc
ExecuteStatement ==
    /\ phase = "program" /\ pc <= Len(program)
    /\ LET r == IF input.variant = "full" THEN self_execute_statement(Entered, program[pc])
                ELSE self_lean_execute_statement(Entered, program[pc])
           turn == execute_turn(r, pc)
       IN /\ interpreter' = r.st
          /\ pc' = turn.pc
          /\ phase' = turn.phase
          /\ result' = turn.result
    /\ UNCHANGED <<operation, returned, daemon, input, position, current, tokens, program, clicks, idles, handler_result>>

\* the loop of execute() is over: Ok(())
ExecuteReturn ==
    /\ phase = "program" /\ pc > Len(program)
    /\ phase' = "done"
    /\ result' = "Ok"
    /\ UNCHANGED <<operation, returned, daemon, input, position, current, tokens, program, pc, interpreter, clicks, idles, handler_result>>

Update(delta_ms) ==
    /\ phase = "done" /\ input.variant = "full"
    /\ interpreter.current_time + delta_ms <= MaxTime
    /\ interpreter' = update(Entered, delta_ms)
    /\ UNCHANGED <<operation, returned, daemon, input, position, current, phase, tokens, program, pc, result, clicks, idles, handler_result>>

HandleClick ==
    /\ phase = "done" /\ input.variant = "full"
    /\ clicks + idles < MaxDispatch
    /\ LET r == handle_click_event(Entered)
       IN /\ interpreter' = r.st
          /\ handler_result' = IF r.ok THEN "Ok" ELSE r.err
    /\ clicks' = clicks + 1
    /\ operation' = [op |-> "handle_click_event"]
    /\ UNCHANGED <<returned, daemon, input, position, current, phase, tokens, program, pc, result, idles>>

HandleIdle(idle_time) ==
    /\ phase = "done" /\ input.variant = "full"
    /\ clicks + idles < MaxDispatch
    /\ LET r == handle_idle_event(Entered, idle_time)
       IN /\ interpreter' = r.st
          /\ handler_result' = IF r.ok THEN "Ok" ELSE r.err
    /\ idles' = idles + 1
    /\ operation' = [op |-> "handle_idle_event", idle_time |-> idle_time]
    /\ UNCHANGED <<returned, daemon, input, position, current, phase, tokens, program, pc, result, clicks>>

Next ==
    \/ Tokenize
    \/ Parse
    \/ LoadProgram
    \/ ExecuteStatement
    \/ ExecuteReturn
    \/ \E delta_ms \in Deltas : Update(delta_ms)
    \/ HandleClick
    \/ \E idle_time \in IdleTimes : HandleIdle(idle_time)

Spec == Init /\ [][Next]_vars

\* ------------------------------------------------------------------ The operations
\* One call of an operation of the library on arguments drawn from bounded
\* sets: `operation` is the operation with its arguments, `returned` what it
\* returned.
\* no side of a frame is longer
MaxSide == 3

\* no Frames value holds more frames
MaxFrames == 3

\* no index is larger
MaxIndex == 5

Returned(r) == [returned |-> TRUE, r |-> r]

\* the frames Frame::new and Frame::from_array can build
FramesOf(w, h) ==
    {[width |-> w, height |-> h, pixels |-> p] : p \in [1..h -> [1..w -> BOOLEAN]]}

AllFrames == UNION {FramesOf(s[1], s[2]) : s \in (0..MaxSide) \X (0..MaxSide)}

SmallFrames == FramesOf(1, 1) \cup {Frame_new(2, 1)}

FrameLists == UNION {[1..n -> SmallFrames] : n \in 0..MaxFrames}

\* the indices: the halves from -2 to MaxIndex, and a value that is no number
IndexValues ==
    {Value_Number(Rat(p, 2)) : p \in -4..(2 * MaxIndex)} \cup {Value_String("0")}

\* no frame that is indexed or handed to a builtin has a longer side
MaxBuiltinSide == 2

BuiltinFrames ==
    UNION {FramesOf(s[1], s[2]) : s \in (0..MaxBuiltinSide) \X (0..MaxBuiltinSide)}

IndexObjects ==
    {Value_Frame(f) : f \in BuiltinFrames} \cup {Value_Frames(fs) : fs \in FrameLists}
        \cup {Value_Number(F64(1)), Value_String("ab"), Value_Boolean(TRUE)}

IndexCalls ==
    \E object \in IndexObjects, index \in IndexValues :
        operation = [op |-> "index", object |-> object, index |-> index]

\* no array literal has more elements
MaxElements == 3

\* what the elements of an array literal may evaluate to
ElementValues ==
    {Value_Number(F64(0)), Value_Number(F64(1)), Value_Number(Rat(-1, 2)),
     Value_Frame(Frame_new(1, 1)), Value_Frame(Frame_flip(Frame_new(2, 1))),
     Value_Frame(Frame_new(1, 2)), Value_String("ab"), Value_Boolean(TRUE)}

ArrayCalls ==
    \E variant \in {"full", "lean"}, n \in 0..MaxElements :
        \E values \in [1..n -> ElementValues] :
            operation = [op |-> "array", variant |-> variant, values |-> values]

\* no chain of environments is longer
MaxScopes == 3

ScopeNames == {"x", "y"}

\* the scopes: any of the names bound to 0 or 1
Scopes == UNION {[D -> {Value_Number(F64(0)), Value_Number(F64(1))}] : D \in SUBSET ScopeNames}

Environments == UNION {[1..n -> Scopes] : n \in 1..MaxScopes}

EnvironmentCalls ==
    \E m \in {"get", "define", "assign"}, env \in Environments, name \in ScopeNames :
        operation = [op |-> m, env |-> env, name |-> name, value |-> Value_Number(F64(2))]

\* the rows handed to Frame::from_array: up to MaxSide rows of up to MaxSide
\* pixels each, of any lengths
PixelRows == UNION {[1..w -> BOOLEAN] : w \in 0..MaxSide}

FromArrayCalls ==
    \E h \in 0..MaxSide :
        \E data \in [1..h -> PixelRows] : operation = [op |-> "from_array", data |-> data]

RotateCalls == \E f \in AllFrames : operation = [op |-> "rotate", frame |-> f]

\* the positions: every one inside a frame, and the first row and column
\* outside the largest
Positions == (0..MaxSide) \X (0..MaxSide)

CountNeighborsCalls ==
    \E f \in AllFrames, at \in Positions :
        operation = [op |-> "count_neighbors", frame |-> f, row |-> at[1], col |-> at[2]]

\* the coordinates a script can pass: one before the frame to one past it
Coordinates == (-1..(MaxBuiltinSide + 1)) \X (-1..(MaxBuiltinSide + 1))

\* Frame::get_pixel and Frame::set_pixel ("method": row and col are usize),
\* the builtin get_pixel of the full build ("full"), and the builtins
\* get_pixel and set_pixel of the lean build ("lean")
PixelCalls ==
    \E f \in BuiltinFrames, at \in Coordinates, v \in BOOLEAN :
        \/ /\ at[1] >= 0 /\ at[2] >= 0
           /\ operation = [op |-> "set_pixel", variant |-> "method", frame |-> f,
                           row |-> at[1], col |-> at[2], value |-> v]
        \/ /\ at[1] >= 0 /\ at[2] >= 0 /\ v
           /\ operation = [op |-> "get_pixel", variant |-> "method", frame |-> f,
                           row |-> at[1], col |-> at[2], value |-> v]
        \/ /\ v
           /\ \E variant \in {"full", "lean"} :
                  operation = [op |-> "get_pixel", variant |-> variant, frame |-> f,
                               row |-> at[1], col |-> at[2], value |-> v]
        \/ operation = [op |-> "set_pixel", variant |-> "lean", frame |-> f,
                        row |-> at[1], col |-> at[2], value |-> v]

\* the host of these calls runs no script
HostIdle ==
    /\ input = FromText("none", <<>>)
    /\ phase = "idle"
    /\ position = 0 /\ tokens = <<>> /\ current = 0
    /\ program = <<>>
    /\ pc = 1
    /\ result = "None"
    /\ interpreter = Interpreter_new(0)
    /\ clicks = 0
    /\ idles = 0
    /\ handler_result = "None"

host_vars ==
    <<input, phase, position, tokens, current, program, pc, result, interpreter, clicks, idles,
      handler_result>>

\* no source text handed to tokenize on its own is longer
MaxText == 4

\* the characters of these texts: a letter, a digit, blank, newline, the
\* slash of a comment, the quote of a string, and `!`, which is no token alone
TextCharacters == {"a", "1", " ", "\n", "/", "\"", "!"}

TokenizeCalls ==
    \E n \in 0..MaxText :
        \E text \in [1..n -> TextCharacters] : operation = [op |-> "tokenize", text |-> text]

InitOps ==
    /\ \/ IndexCalls
       \/ TokenizeCalls
       \/ ArrayCalls
       \/ EnvironmentCalls
       \/ FromArrayCalls
       \/ RotateCalls
       \/ CountNeighborsCalls
       \/ PixelCalls
    /\ returned = NotReturned
    /\ HostIdle
    /\ daemon = NoDaemon

CallIndex ==
    /\ operation.op = "index" /\ returned = NotReturned
    /\ returned' = Returned(apply_index_operator(operation.object, operation.index))
    /\ UNCHANGED <<operation, host_vars, daemon>>

\* the value of an array literal whose elements have been evaluated
CallArray ==
    /\ operation.op = "array" /\ returned = NotReturned
    /\ returned' = Returned(IF operation.variant = "full" THEN array_value(operation.values)
                            ELSE lean_array_value(operation.values))
    /\ UNCHANGED <<operation, host_vars, daemon>>

CallGet ==
    /\ operation.op = "get" /\ returned = NotReturned
    /\ returned' = [returned |-> TRUE,
                    r |-> Environment_get(operation.env, operation.name),
                    env |-> operation.env]
    /\ UNCHANGED <<operation, host_vars, daemon>>

CallDefine ==
    /\ operation.op = "define" /\ returned = NotReturned
    /\ returned' = [returned |-> TRUE, r |-> POk(NoneV),
                    env |-> Environment_define(operation.env, operation.name, operation.value)]
    /\ UNCHANGED <<operation, host_vars, daemon>>

CallAssign ==
    /\ operation.op = "assign" /\ returned = NotReturned
    /\ LET r == Environment_assign(operation.env, operation.name, operation.value)
       IN returned' = [returned |-> TRUE,
                       r |-> IF r.ok THEN POk(NoneV) ELSE r,
                       env |-> IF r.ok THEN r.v ELSE operation.env]
    /\ UNCHANGED <<operation, host_vars, daemon>>

CallFromArray ==
    /\ operation.op = "from_array" /\ returned = NotReturned
    /\ returned' = Returned(Frame_from_array(operation.data))
    /\ UNCHANGED <<operation, host_vars, daemon>>

\* rotate_90 of the frame, and then of what the call before returned, four
\* times in all
CallRotate ==
    /\ operation.op = "rotate"
    /\ IF returned = NotReturned
       THEN returned' = [returned |-> TRUE, r |-> Frame_rotate_90(operation.frame), turns |-> 1]
       ELSE /\ returned.turns < 4
            /\ returned' = [returned |-> TRUE, r |-> Frame_rotate_90(returned.r),
                            turns |-> returned.turns + 1]
    /\ UNCHANGED <<operation, host_vars, daemon>>

CallTokenize ==
    /\ operation.op = "tokenize" /\ returned = NotReturned
    /\ returned' = Returned(Lexer_tokenize(operation.text, 0, <<>>))
    /\ UNCHANGED <<operation, host_vars, daemon>>

CallCountNeighbors ==
    /\ operation.op = "count_neighbors" /\ returned = NotReturned
    /\ returned' = Returned(Frame_count_neighbors(operation.frame, operation.row, operation.col))
    /\ UNCHANGED <<operation, host_vars, daemon>>

\* get_pixel(frame, row, col) as the variant of the call has it; the lean
\* builtin takes (frame, x, y)
get_pixel_of(variant, f, row, col) ==
    IF variant = "method" THEN Frame_get_pixel(f, row, col)
    ELSE IF variant = "full"
    THEN frame_get_pixel(<<Value_Frame(f), Value_Number(F64(row)), Value_Number(F64(col))>>)
    ELSE lean_get_pixel(<<Value_Frame(f), Value_Number(F64(col)), Value_Number(F64(row))>>)

CallGetPixel ==
    /\ operation.op = "get_pixel" /\ returned = NotReturned
    /\ returned' = [returned |-> TRUE,
                    r |-> get_pixel_of(operation.variant, operation.frame, operation.row,
                                       operation.col),
                    frame |-> operation.frame]
    /\ UNCHANGED <<operation, host_vars, daemon>>

\* set_pixel: `frame` is the frame the call leaves
CallSetPixel ==
    /\ operation.op = "set_pixel" /\ returned = NotReturned
    /\ LET r == IF operation.variant = "method"
                THEN Frame_set_pixel(operation.frame, operation.row, operation.col,
                                     operation.value)
                ELSE lean_set_pixel(<<Value_Frame(operation.frame),
                                      Value_Number(F64(operation.col)),
                                      Value_Number(F64(operation.row)),
                                      Value_Number(F64(IF operation.value THEN 1 ELSE 0))>>)
       IN returned' = [returned |-> TRUE,
                       r |-> IF r.ok /\ operation.variant = "method" THEN POk(NoneV) ELSE r,
                       frame |-> IF r.ok /\ operation.variant = "method" THEN r.v
                                 ELSE operation.frame,
                       followed |-> FALSE]
    /\ UNCHANGED <<operation, host_vars, daemon>>

\* the get_pixel that follows a set_pixel, at the same position
CallGetPixelAfter ==
    /\ operation.op = "set_pixel" /\ returned # NotReturned
    /\ ~returned.followed
    /\ returned' = [returned EXCEPT
                       !.followed = TRUE,
                       !.r = get_pixel_of(operation.variant, returned.frame, operation.row,
                                          operation.col)]
    /\ UNCHANGED <<operation, host_vars, daemon>>

NextOps ==
    \/ CallIndex
    \/ CallTokenize
    \/ CallGetPixel
    \/ CallSetPixel
    \/ CallGetPixelAfter
    \/ CallCountNeighbors
    \/ CallRotate
    \/ CallFromArray
    \/ CallGet
    \/ CallDefine
    \/ CallAssign
    \/ CallArray

SpecOps == InitOps /\ [][NextOps]_vars

\* ------------------------------------------------------------------ The daemon
\* The commands `gizmo start <file>`, `gizmo stop` and `gizmo restart` of the
\* lean build, each one process that runs to its end, and the GUI process
\* they spawn.  A command leaves Ok or Err and the daemon state.
\* no more commands are given
MaxCommands == 4

\* the paths given to `start`; Path::exists() and ends_with(".gzmo")
Paths == {"a.gzmo", "b.gzmo", "notes.txt", "missing.gzmo"}

ExistingPaths == {"a.gzmo", "b.gzmo", "notes.txt"}

GzmoPaths == {"a.gzmo", "b.gzmo", "missing.gzmo"}

DOk(d) == [ok |-> TRUE, d |-> d]

DErr(d) == [ok |-> FALSE, d |-> d]

LivePids(d) == {p.pid : p \in d.processes}

save_current_file(d, file_path) == [d EXCEPT !.current_txt = <<file_path>>]

\* Err when current.txt does not exist
get_current_file(d) ==
    IF d.current_txt = <<>> THEN PErr("NoCurrentFile") ELSE POk(d.current_txt[1])

save_daemon_pid(d, pid) == [d EXCEPT !.daemon_pid = <<pid>>]

get_daemon_pid(d) ==
    IF d.daemon_pid = <<>> THEN PErr("NoDaemonPid") ELSE POk(d.daemon_pid[1])

\* `kill -0 <pid>` succeeds when the process exists
is_daemon_running(d) ==
    LET pid == get_daemon_pid(d)
    IN IF pid.ok THEN pid.v \in LivePids(d) ELSE FALSE

\* daemon.pid is removed, current.txt is kept
cleanup_daemon_state(d) == [d EXCEPT !.daemon_pid = <<>>]

\* `kill -TERM <pid>`: the process ends
kill_TERM(d, pid) == [d EXCEPT !.processes = {p \in @ : p.pid # pid}]

\* `pkill -f "gizmo --gui"`: every GUI process ends
pkill_gui(d) == [d EXCEPT !.processes = {}]

stop_daemon(d) ==
    LET pid == get_daemon_pid(d)
    IN IF pid.ok
       THEN IF pid.v \in LivePids(d)
            THEN DOk(cleanup_daemon_state(kill_TERM(d, pid.v)))
            ELSE DOk(cleanup_daemon_state(pkill_gui(d)))
       ELSE IF d.processes # {}
            THEN DOk(cleanup_daemon_state(pkill_gui(d)))
            ELSE DErr(d)

stop_gizmo(d) == stop_daemon(d)

start_gizmo(d, gzmo_file) ==
    IF gzmo_file \notin ExistingPaths THEN DErr(d)
    ELSE IF gzmo_file \notin GzmoPaths THEN DErr(d)
    ELSE LET saved == save_current_file(d, gzmo_file)
         IN IF is_daemon_running(saved) THEN DErr(saved)
            ELSE LET pid == saved.spawned + 1
                 IN DOk(save_daemon_pid(
                            [saved EXCEPT !.processes =
                                              @ \cup {[pid |-> pid, file |-> gzmo_file]},
                                          !.spawned = pid], pid))

restart_gizmo(d) ==
    LET current_file == get_current_file(d)
    IN IF ~current_file.ok THEN DErr(d)
       ELSE LET stopped == stop_gizmo(d)
            IN IF ~stopped.ok THEN stopped
               ELSE start_gizmo(stopped.d, current_file.v)

\* no command has been given
NoCommand == [op |-> "none", n |-> 0]

InitDaemon ==
    /\ operation = NoCommand
    /\ returned = NotReturned
    /\ daemon = NoDaemon
    /\ HostIdle

\* what main() exits with
ExitStatus(r) == Returned(IF r.ok THEN "Ok" ELSE "Err")

\* gizmo start <gzmo_file>
Start(gzmo_file) ==
    /\ operation.n < MaxCommands
    /\ operation' = [op |-> "start", file |-> gzmo_file, n |-> operation.n + 1]
    /\ returned' = ExitStatus(start_gizmo(daemon, gzmo_file))
    /\ daemon' = start_gizmo(daemon, gzmo_file).d
    /\ UNCHANGED host_vars

\* gizmo stop
Stop ==
    /\ operation.n < MaxCommands
    /\ operation' = [op |-> "stop", file |-> "", n |-> operation.n + 1]
    /\ returned' = ExitStatus(stop_gizmo(daemon))
    /\ daemon' = stop_gizmo(daemon).d
    /\ UNCHANGED host_vars

\* gizmo restart
Restart ==
    /\ operation.n < MaxCommands
    /\ operation' = [op |-> "restart", file |-> "", n |-> operation.n + 1]
    /\ returned' = ExitStatus(restart_gizmo(daemon))
    /\ daemon' = restart_gizmo(daemon).d
    /\ UNCHANGED host_vars

\* the window of a GUI process is closed: the process removes daemon.pid and
\* exits
CloseRequested ==
    /\ \E p \in daemon.processes :
           daemon' = cleanup_daemon_state([daemon EXCEPT !.processes = @ \ {p}])
    /\ UNCHANGED <<operation, returned, host_vars>>

NextDaemon ==
    \/ \E gzmo_file \in Paths : Start(gzmo_file)
    \/ Stop
    \/ Restart
    \/ CloseRequested

SpecDaemon == InitDaemon /\ [][NextDaemon]_vars

\* ------------------------------------------------------------------ Properties
\* the binding of `name` the interpreter `it` of this run sees
LookupIn(it, name) ==
    IF input.variant = "full" THEN Environment_get(it.environment, name)
    ELSE Lean_Environment_get(it.environment, name)

Lookup(name) == LookupIn(interpreter, name)

\* the names the programs of the library bind, with those a generator binds
VariableNames == {"row", "col", "time", "a", "b", "c", "f", "fs", "g", "h", "k", "r", "x"}

\* how many statements the last host call executed, nested ones included
StatementsRun(log) == Cardinality({i \in DOMAIN log : log[i].ev = "stmt"})

\* execute() is about to run statement pc
AtStatement == phase = "program" /\ pc <= Len(program)

\* what executing statement pc returns
StatementOutcome ==
    IF input.variant = "full" THEN self_execute_statement(Entered, program[pc])
    ELSE self_lean_execute_statement(Entered, program[pc])

Identity(n) == [r \in 1..n |-> [c \in 1..n |-> r = c]]

\* C1: a pattern(W, H) generator yields a W x H frame whose pixel (r, c) is on
\* exactly when the first value the body returns for row = r, col = c is
\* truthy.  Stated on the pattern programs of the library, with the frame the
\* sentence gives for each: the diagonal for `return row == col` on 3x3 and
\* for `num k = row  return k == col` on 2x2; all on for `abs(0)  return 1`,
\* whose only returned value is 1.
C1_PatternPixels ==
    (phase = "done" /\ result = "Ok") =>
        /\ input.name = "diagonal" =>
               /\ Lookup("f").ok /\ Lookup("f").v.t = "Frame"
               /\ Lookup("f").v.f = [width |-> 3, height |-> 3, pixels |-> Identity(3)]
        /\ input.name = "shadow" =>
               /\ Lookup("f").ok /\ Lookup("f").v.t = "Frame"
               /\ Lookup("f").v.f = [width |-> 2, height |-> 2, pixels |-> Identity(2)]
        /\ input.name = "call_then_return" =>
               /\ Lookup("g").ok /\ Lookup("g").v.t = "Frame"
               /\ Lookup("g").v.f = [width |-> 2, height |-> 1, pixels |-> <<<<TRUE, TRUE>>>>]

\* statement pc declares a variable whose value is a generator expression or
\* an array of generator expressions
DeclaresGenerator ==
    /\ AtStatement
    /\ program[pc].kind = "VariableDeclaration"
    /\ \/ program[pc].value.kind = "PatternGenerator"
       \/ /\ program[pc].value.kind = "Array"
          /\ \E i \in DOMAIN program[pc].value.elements :
                 program[pc].value.elements[i].kind = "PatternGenerator"

\* C2: per-pixel isolation of generator evaluation: after a declaration whose
\* value is a generator has succeeded, every name other than the declared one
\* is bound exactly as before (no row, col or body variable is added or
\* changed).
C2_GeneratorIsolation ==
    [][(DeclaresGenerator /\ result' = "None" /\ phase' = "program" /\ pc' = pc + 1) =>
           \A n \in VariableNames \ {program[pc].name} :
               LookupIn(interpreter', n) = Lookup(n)]_vars

\* C3: executing a `when` statement only stores its body: the step runs no
\* statement but the `when` itself, changes no variable, output frame or
\* animation state, and stores the body under the event's key; as long as the
\* host has called no event entry point, what the bodies declare is not
\* there (in the handlers script x is still 0 and h is unbound).
C3_WhenOnlyStores ==
    [][/\ (AtStatement /\ program[pc].kind = "WhenStatement") =>
              /\ interpreter'.environment = interpreter.environment
              /\ interpreter'.output_frames = interpreter.output_frames
              /\ interpreter'.animation_state = interpreter.animation_state
              /\ StatementsRun(interpreter'.log) = 1
              /\ result' = "None"
              /\ \E key \in DOMAIN interpreter'.event_handlers :
                     /\ key.event = IF program[pc].event.kind = "Clicked" THEN "clicked" ELSE "idle"
                     /\ interpreter'.event_handlers =
                            Put(interpreter.event_handlers, key, program[pc].body)
       /\ (input.name = "handlers" /\ clicks' = 0 /\ idles' = 0) =>
              /\ ~LookupIn(interpreter', "h").ok
              /\ LookupIn(interpreter', "x").ok =>
                     LookupIn(interpreter', "x").v = Value_Number(F64(0))]_vars

\* both `when` statements of the handlers script have been executed, the host
\* has called no entry point, and neither body has run
C3_Witness ==
    /\ input.name = "handlers" /\ phase = "done" /\ result = "Ok"
    /\ clicks = 0 /\ idles = 0
    /\ DOMAIN interpreter.event_handlers = {HandlerKey_clicked, HandlerKey_idle(5)}
    /\ Len(interpreter.event_handlers[HandlerKey_clicked]) = 1
    /\ Lookup("x").ok /\ Lookup("x").v = Value_Number(F64(0))
    /\ ~Lookup("h").ok

\* C4: after `num x = 0` and `when clicked do x = x + 1 end`, n calls of
\* handle_click_event leave x equal to n.
C4_ClickCounter ==
    (input.name = "counter" /\ phase \notin {"source", "tokens"}) =>
        /\ phase # "rejected"
        /\ phase = "done" =>
               /\ result = "Ok"
               /\ Lookup("x").ok /\ Lookup("x").v = Value_Number(F64(clicks))

\* C5: the stored per-frame duration lies in [1, 10000]: the duration of the
\* animation play_speed starts (full build), frame_duration_ms (lean build);
\* an argument of 0 stores 1 and an argument of 50000 stores 10000.
C5_DurationClamped ==
    LET stored == IF input.variant = "full" THEN interpreter.animation_state.frame_duration
                  ELSE interpreter.frame_duration_ms
        set == IF input.variant = "full" THEN interpreter.animation_state.present ELSE TRUE
    IN set =>
           /\ stored \in 1..10000
           /\ (phase = "done" /\ result = "Ok" /\ input.name = "speed_0") => stored = 1
           /\ (phase = "done" /\ result = "Ok" /\ input.name = "speed_50000") => stored = 10000

\* the host's update call is the only step that moves current_time
IsUpdate == interpreter'.current_time # interpreter.current_time

InterceptedNames ==
    IF input.variant = "full" THEN {"play", "loop", "play_speed", "stop", "add_frame"}
    ELSE {"play", "loop", "loop_speed", "add_frame"}

\* how many entries of the log record event ev for the call name
Entries(log, ev, name) ==
    Cardinality({i \in DOMAIN log : log[i].ev = ev /\ log[i].name = name})

\* C7: every evaluated call to play, loop, play_speed, stop or add_frame
\* (loop_speed in the lean build) takes effect through the interpreter's
\* interception: in the trace of each host call, every call that reached the
\* builtin table under one of these names was also handled by the interception
\* of that name.
C7_Intercepted ==
    \A name \in InterceptedNames :
        Entries(interpreter.log, "builtin", name) = Entries(interpreter.log, "intercept", name)

\* the program is one expression statement holding a call of `name` with
\* `count` arguments
IsCallStatement(name, count) ==
    /\ Len(program) = 1
    /\ program[1].kind = "ExpressionStatement"
    /\ program[1].expr.kind = "FunctionCall"
    /\ program[1].expr.name = name
    /\ Len(program[1].expr.args) = count

\* C8: source text that calls play, loop or stop with a parenthesised
\* argument list tokenizes and parses into one expression statement holding a
\* FunctionCall of that name and number of arguments: `play([eye_open,
\* eye_closed]);` (one argument), `loop(fs)` (one) and `stop()` (none) are
\* never rejected, and once parsed are that statement.
C8_CallParses ==
    (input.from = "text" /\ input.name \in {"play", "loop", "stop"}) =>
        /\ phase # "rejected"
        /\ phase \in {"program", "done"} =>
               IsCallStatement(input.name, IF input.name = "stop" THEN 0 ELSE 1)

\* C9: when top-level statement k fails, execute returns that failure and
\* runs no later statement (the run is done with that result and pc stays at
\* k for good), and what statements 1..k-1 did is still there: every
\* variable bound before is bound to the same value, and the registered
\* handlers, output frames, animation state and frame duration are as before.
C9_FailureStops ==
    [][/\ (AtStatement /\ ~StatementOutcome.ok) =>
              /\ phase' = "done" /\ result' = StatementOutcome.err /\ pc' = pc
              /\ \A n \in VariableNames :
                     Lookup(n).ok => LookupIn(interpreter', n) = Lookup(n)
              /\ interpreter'.output_frames = interpreter.output_frames
              /\ input.variant = "full" =>
                     /\ interpreter'.event_handlers = interpreter.event_handlers
                     /\ interpreter'.animation_state = interpreter.animation_state
              /\ input.variant = "lean" =>
                     interpreter'.frame_duration_ms = interpreter.frame_duration_ms
       /\ phase = "done" => (phase' = "done" /\ pc' = pc /\ result' = result)]_vars

\* `num a = 1  num b = a / 0  num c = 2`: statement 2 has failed, a is still
\* bound to 1 and statement 3 has not run
C9_Witness ==
    /\ input.name = "divide" /\ phase = "done" /\ result = "DivisionByZero" /\ pc = 2
    /\ Lookup("a").ok /\ Lookup("a").v = Value_Number(F64(1))
    /\ ~Lookup("b").ok /\ ~Lookup("c").ok

\* C10: `/` and `%` with a right operand of zero fail with the
\* division-by-zero error and produce no value: the programs `num a = 1
\* num b = a / 0 ...` and `num a = 7 % 0` end with DivisionByZero in both
\* builds.
C10_DivModByZero ==
    (input.name \in {"divide", "modulo"} /\ phase = "done") => result = "DivisionByZero"

\* C11: logical operators short-circuit: `0 and 1 / 0` and `1 or 1 / 0` do
\* not evaluate the right operand, so `num a = 0 and 1 / 0` and
\* `num a = 1 or 1 / 0` do not fail and bind a (to a falsy, resp. truthy
\* value).
C11_ShortCircuit ==
    (input.name \in {"short_circuit", "short_circuit_or"} /\ phase = "done") =>
        /\ result = "Ok"
        /\ Lookup("a").ok
        /\ Lookup("a").v \in
               (IF input.name = "short_circuit"
                THEN {Value_Boolean(FALSE), Value_Number(F64(0))}
                ELSE {Value_Boolean(TRUE), Value_Number(F64(1))})

\* the number i is a whole number with 0 <= i < length
IndexInRange(i, length) == i.q = 1 /\ i.p >= 0 /\ i.p < length

\* the number i lies outside 0 <= i < length
IndexOutOfRange(i, length) == i.q # 0 /\ (i.p < 0 \/ i.p >= length * i.q)

\* C12: indexing is bounds-checked: Frames[i] yields frame i and Frame[i]
\* yields row i as a one-row Frame when 0 <= i < length (the number of
\* frames, resp. the height); every numeric index outside that range,
\* negative ones included, fails with the index error; indexing any other
\* kind of value fails with the type error.
C12_IndexChecked ==
    (operation.op = "index" /\ returned.returned) =>
        LET object == operation.object
            index == operation.index
            r == returned.r
        IN /\ (object.t = "Frames" /\ index.t = "Number") =>
                  /\ IndexInRange(index.n, Len(object.fs)) =>
                         r = POk(Value_Frame(object.fs[index.n.p + 1]))
                  /\ IndexOutOfRange(index.n, Len(object.fs)) =>
                         (~r.ok /\ r.err = "IndexError")
           /\ (object.t = "Frame" /\ index.t = "Number") =>
                  /\ IndexInRange(index.n, object.f.height) =>
                         r = POk(Value_Frame([width |-> object.f.width, height |-> 1,
                                              pixels |-> <<object.f.pixels[index.n.p + 1]>>]))
                  /\ IndexOutOfRange(index.n, object.f.height) =>
                         (~r.ok /\ r.err = "IndexError")
           /\ object.t \notin {"Frame", "Frames"} => (~r.ok /\ r.err = "TypeError")

\* entry i of the log lies inside a pixel of a generator: a pixel has begun
\* and has not been decided yet
InPixel(log, i) ==
    \E j \in 1..(i - 1) :
        /\ log[j].ev = "pixel_begin"
        /\ \A k \in (j + 1)..(i - 1) : log[k].ev # "pixel"

\* C13: once a `return` has executed inside nested if / elsif / else /
\* repeat bodies of a generator body, nothing else runs for that pixel (no
\* later sibling statement, no further iteration of an enclosing repeat): the
\* next thing that happens is that the pixel is decided, and it is on exactly
\* when the returned value is truthy.
C13_ReturnStops ==
    input.variant = "full" =>
        \A i \in DOMAIN interpreter.log :
            (interpreter.log[i].ev = "return" /\ InPixel(interpreter.log, i)) =>
                /\ i < Len(interpreter.log)
                /\ interpreter.log[i + 1].ev = "pixel"
                /\ interpreter.log[i + 1].name =
                       (IF interpreter.log[i].name = "truthy" THEN "on" ELSE "off")

\* the generator of the nested_return program has run: pixels (0, 0) and
\* (1, 0) were decided by returns inside the repeat (the if and the elsif
\* branch), pixel (0, 1) by a falsy return there, pixel (1, 1) by the final
\* `return 0` after two full iterations
C13_Witness ==
    /\ input.name = "nested_return" /\ phase = "done" /\ result = "Ok"
    /\ Lookup("f").ok /\ Lookup("f").v.t = "Frame"
    /\ Lookup("f").v.f.pixels = <<<<TRUE, FALSE>>, <<TRUE, FALSE>>>>
    /\ Cardinality({i \in DOMAIN interpreter.log : interpreter.log[i].ev = "return"}) = 4

\* C15: array literal typing: elements that are all Frame give the Frames
\* value holding them in order; elements that are all Number give a one-row
\* Frame whose pixel i is on exactly when element i is nonzero; any other
\* literal (Number mixed with Frame, or any other value in it) fails with
\* the type error.  Stated for literals with at least one element.
C15_ArrayTyping ==
    (operation.op = "array" /\ returned.returned /\ Len(operation.values) >= 1) =>
        LET values == operation.values
            n == Len(values)
            r == returned.r
        IN IF \A i \in 1..n : values[i].t = "Frame"
           THEN r = POk(Value_Frames([i \in 1..n |-> values[i].f]))
           ELSE IF \A i \in 1..n : values[i].t = "Number"
           THEN r = POk(Value_Frame([width |-> n, height |-> 1,
                                     pixels |-> <<[i \in 1..n |-> ~IsZero(values[i].n)]>>]))
           ELSE ~r.ok /\ r.err = "TypeError"

\* the scopes of env that bind name, 1 being the innermost
Binding(env, name) == {i \in 1..Len(env) : name \in DOMAIN env[i]}

Nearest(env, name) == CHOOSE i \in Binding(env, name) : \A j \in Binding(env, name) : i <= j

\* env and after are the same chain but for the binding of name in scope i
SameBut(env, after, i, name) ==
    /\ Len(after) = Len(env)
    /\ \A j \in 1..Len(env) :
           IF j = i
           THEN /\ DOMAIN after[j] = DOMAIN env[j] \cup {name}
                /\ \A n \in DOMAIN env[j] \ {name} : after[j][n] = env[j][n]
           ELSE after[j] = env[j]

\* C14: on any chain of nested environments, get(name) returns the value of
\* the nearest scope that binds name; define(name, v) binds name in the
\* current scope and changes no ancestor; assign(name, v) changes only the
\* nearest scope that binds name, and when none does it fails with
\* undefined-variable and changes nothing.
C14_ScopeChain ==
    (operation.op \in {"get", "define", "assign"} /\ returned.returned) =>
        LET env == operation.env
            name == operation.name
            after == returned.env
            bound == Binding(env, name) # {}
        IN /\ operation.op = "get" =>
                  /\ after = env
                  /\ bound => returned.r = POk(env[Nearest(env, name)][name])
                  /\ ~bound => (~returned.r.ok /\ returned.r.err = "UndefinedVariable")
           /\ operation.op = "define" =>
                  /\ SameBut(env, after, 1, name)
                  /\ after[1][name] = operation.value
           /\ operation.op = "assign" =>
                  /\ bound =>
                         /\ returned.r.ok
                         /\ SameBut(env, after, Nearest(env, name), name)
                         /\ after[Nearest(env, name)][name] = operation.value
                  /\ ~bound =>
                         /\ ~returned.r.ok /\ returned.r.err = "UndefinedVariable"
                         /\ after = env

\* an assign to a name the current scope does not bind and two ancestors do:
\* the parent's binding has changed, the grandparent's has not
C14_Witness ==
    /\ operation.op = "assign" /\ returned.returned
    /\ Binding(operation.env, operation.name) = {2, 3}
    /\ returned.r.ok
    /\ returned.env[2][operation.name] = operation.value
    /\ returned.env[3][operation.name] = operation.env[3][operation.name]
    /\ operation.name \notin DOMAIN returned.env[1]

\* C16: Frame::from_array(rows) succeeds, with height the number of rows,
\* width the length of the first row and the rows as pixels, if and only if
\* rows is non-empty and all rows have the same length; in every other case
\* it fails with the invalid-frame-size error.
C16_FromArray ==
    (operation.op = "from_array" /\ returned.returned) =>
        LET data == operation.data
            r == returned.r
        IN IF Len(data) > 0 /\ \A i \in 1..Len(data) : Len(data[i]) = Len(data[1])
           THEN r = POk([width |-> Len(data[1]), height |-> Len(data), pixels |-> data])
           ELSE ~r.ok /\ r.err = "InvalidFrameSize"

\* three rows of which only the last differs in length have been rejected
C16_Witness ==
    /\ operation.op = "from_array" /\ returned.returned
    /\ Len(operation.data) = 3
    /\ Len(operation.data[1]) = 2 /\ Len(operation.data[2]) = 2 /\ Len(operation.data[3]) = 1
    /\ ~returned.r.ok /\ returned.r.err = "InvalidFrameSize"

\* C18: rotate_90 of a frame of width W and height H gives a frame of width
\* H and height W whose pixel (row c, col H-1-r) is the original pixel
\* (row r, col c), and four rotations of any frame, square or not, give the
\* original frame back.
C18_Rotate ==
    (operation.op = "rotate" /\ returned.returned) =>
        LET f == operation.frame
            g == returned.r
        IN /\ returned.turns = 1 =>
                  /\ g.width = f.height /\ g.height = f.width
                  /\ DOMAIN g.pixels = 1..f.width
                  /\ \A r \in 1..f.width : DOMAIN g.pixels[r] = 1..f.height
                  /\ \A r \in 0..(f.height - 1) : \A c \in 0..(f.width - 1) :
                         g.pixels[c + 1][(f.height - 1 - r) + 1] = f.pixels[r + 1][c + 1]
           /\ returned.turns = 4 => g = f

\* a frame of width 3 and height 2 with a single pixel on, in its top left
\* corner, has been rotated four times
C18_Witness ==
    /\ operation.op = "rotate" /\ returned.returned /\ returned.turns = 4
    /\ operation.frame.width = 3 /\ operation.frame.height = 2
    /\ operation.frame.pixels = <<<<TRUE, FALSE, FALSE>>, <<FALSE, FALSE, FALSE>>>>
    /\ returned.r = operation.frame

\* the cells of f that are on and touch (row, col) without being it
MooreNeighbours(f, row, col) ==
    {at \in (0..(f.height - 1)) \X (0..(f.width - 1)) :
        /\ at # <<row, col>>
        /\ at[1] - row \in -1..1 /\ at[2] - col \in -1..1
        /\ f.pixels[at[1] + 1][at[2] + 1]}

AllOn(f) == \A r \in 1..f.height : \A c \in 1..f.width : f.pixels[r][c]

\* C19: count_neighbors(row, col) is the number of cells of the grid that
\* are on among the up to eight Moore neighbours of (row, col): the cell
\* itself is not counted and nothing wraps around an edge.  So it is 8 for
\* an interior cell of an all-on grid of at least 3x3, and at most 3 for a
\* corner cell.
C19_CountNeighbors ==
    (operation.op = "count_neighbors" /\ returned.returned) =>
        LET f == operation.frame
            row == operation.row
            col == operation.col
        IN /\ returned.r = Cardinality(MooreNeighbours(f, row, col))
           /\ (AllOn(f) /\ row >= 1 /\ row + 1 < f.height /\ col >= 1 /\ col + 1 < f.width) =>
                  returned.r = 8
           /\ (row \in {0, f.height - 1} /\ col \in {0, f.width - 1}) => returned.r <= 3

\* the centre of the all-on 3x3 grid has 8 neighbours
C19_Witness ==
    /\ operation.op = "count_neighbors" /\ returned.returned
    /\ operation.frame.width = 3 /\ operation.frame.height = 3 /\ AllOn(operation.frame)
    /\ operation.row = 1 /\ operation.col = 1
    /\ returned.r = 8

\* what get_pixel returned says the pixel is on / off
SaysPixel(r, value) ==
    /\ r.ok
    /\ r.v \in (IF value THEN {TRUE, Value_Number(F64(1))} ELSE {FALSE, Value_Number(F64(0))})

\* C20: get_pixel and set_pixel with a row or column outside the frame fail
\* with an error and leave the frame unchanged; in range, get_pixel returns
\* the pixel, set_pixel changes exactly the addressed pixel to the given
\* value, and the get_pixel that follows at that position returns it.
C20_PixelAccess ==
    (operation.op \in {"get_pixel", "set_pixel"} /\ returned.returned) =>
        LET f == operation.frame
            row == operation.row
            col == operation.col
            inside == row >= 0 /\ row < f.height /\ col >= 0 /\ col < f.width
        IN /\ ~inside => (~returned.r.ok /\ returned.frame = f)
           /\ (inside /\ operation.op = "get_pixel") =>
                  /\ SaysPixel(returned.r, f.pixels[row + 1][col + 1])
                  /\ returned.frame = f
           /\ (inside /\ operation.op = "set_pixel") =>
                  /\ returned.frame = [f EXCEPT !.pixels[row + 1][col + 1] = operation.value]
                  /\ IF returned.followed THEN SaysPixel(returned.r, operation.value)
                     ELSE returned.r.ok

\* the frames a value holds
FramesOfValue(v) ==
    IF v.t = "Frame" THEN {v.f}
    ELSE IF v.t = "Frames" THEN {v.fs[i] : i \in DOMAIN v.fs}
    ELSE {}

RangeOf(frames) == {frames[i] : i \in DOMAIN frames}

\* every frame the interpreter holds: in a variable of any scope, in a Frames
\* value, among the output frames, among the frames of the animation
FramesHeld ==
    RangeOf(interpreter.output_frames)
    \cup (IF input.variant = "full"
          THEN UNION {UNION {FramesOfValue(interpreter.environment[i][n]) :
                                 n \in DOMAIN interpreter.environment[i]} :
                          i \in DOMAIN interpreter.environment}
               \cup (IF interpreter.animation_state.present
                     THEN RangeOf(interpreter.animation_state.frames) ELSE {})
          ELSE UNION {FramesOfValue(interpreter.environment[n]) :
                          n \in DOMAIN interpreter.environment})

WellFormed(f) ==
    /\ DOMAIN f.pixels = 1..f.height
    /\ \A r \in 1..f.height : DOMAIN f.pixels[r] = 1..f.width

\* C17: every Frame the interpreter holds (in variables, in Frames values,
\* among the output frames and the frames of the animation) has exactly
\* `height` rows of exactly `width` pixels each, whatever statements have run.
C17_FramesWellFormed == \A f \in FramesHeld : WellFormed(f)

\* the full frame_ops program has run: the interpreter holds frames of
\* width 0 (z), of height 0 (e), a row taken by indexing (c), a rotated and
\* flipped frame (g), the canvas of place_sprite (s), and plays fs
C17_Witness ==
    /\ input.name = "frame_ops" /\ input.variant = "full"
    /\ phase = "done" /\ result = "Ok"
    /\ Lookup("z").v.f.width = 0 /\ Lookup("z").v.f.height = 2
    /\ Lookup("e").v.f.width = 2 /\ Lookup("e").v.f.height = 0
    /\ Lookup("c").v.f.pixels = <<<<TRUE, FALSE, TRUE>>>>
    /\ Lookup("g").v.f = [width |-> 1, height |-> 3, pixels |-> <<<<FALSE>>, <<TRUE>>, <<FALSE>>>>]
    /\ Lookup("s").v.f.width = CanvasSide /\ Lookup("s").v.f.pixels[2][2]
    /\ ~Lookup("s").v.f.pixels[2][3] /\ Lookup("s").v.f.pixels[2][4]
    /\ Len(interpreter.animation_state.frames) = 2
    /\ Cardinality(FramesHeld) >= 6

\* the statements a host call ran, in order: kind and declared name
Ran(log) ==
    LET stmts == SelectSeq(log, LAMBDA e : e.ev = "stmt")
    IN [i \in DOMAIN stmts |-> <<stmts[i].kind, stmts[i].name>>]

Listed(body) == [i \in DOMAIN body |-> <<body[i].kind, StatementName(body[i])>>]

\* T in whole milliseconds, for T >= 0
WholeMs(T) == T.p \div T.q

\* the body the executed program registered last for the event: <<>> for none,
\* <<body>> for one.  The event is a click, or else the idle time e.
RECURSIVE RegisteredBody(_, _, _, _)
RegisteredBody(statements, i, clicked, e) ==
    IF i = 0 THEN <<>>
    ELSE LET s == statements[i]
         IN IF /\ s.kind = "WhenStatement"
               /\ \/ clicked /\ s.event.kind = "Clicked"
                  \/ /\ ~clicked /\ s.event.kind = "Idle"
                     /\ s.event.time.kind = "Number" /\ WholeMs(s.event.time.n) = e
            THEN <<s.body>>
            ELSE RegisteredBody(statements, i - 1, clicked, e)

\* the host call of this step ran the registered body, or nothing
Dispatched(registered) ==
    IF registered = <<>>
    THEN /\ interpreter' = Entered
         /\ handler_result' = "Ok"
    ELSE Ran(interpreter'.log) = Listed(registered[1])

\* C21: event dispatch is by exact key.  On a program that ran to its end,
\* handle_idle_event(e) runs the statements of the body registered by
\* `when idle > T` exactly when e is T in whole milliseconds, and
\* handle_click_event those of `when clicked`; with no such body the call
\* changes nothing and returns Ok.
C21_ExactKey ==
    [][(phase = "done" /\ result = "Ok") =>
           /\ idles' = idles + 1 =>
                  /\ operation'.op = "handle_idle_event"
                  /\ Dispatched(RegisteredBody(program, Len(program), FALSE,
                                               operation'.idle_time))
           /\ clicks' = clicks + 1 =>
                  /\ operation'.op = "handle_click_event"
                  /\ Dispatched(RegisteredBody(program, Len(program), TRUE, 0))]_vars

\* on the idle_handlers program the host has sent idle 5, idle 7 and a click:
\* the 5.5 ms body and the clicked body have run, the 6 ms body never
C21_Witness ==
    /\ input.name = "idle_handlers" /\ phase = "done"
    /\ idles = 2 /\ clicks = 1 /\ handler_result = "Ok"
    /\ Lookup("h").ok /\ Lookup("c").ok /\ ~Lookup("k").ok
    /\ Lookup("x").ok /\ Lookup("x").v = Value_Number(F64(2))

\* how many end-of-input tokens the sequence holds
EofCount(ts) == Cardinality({i \in DOMAIN ts : ts[i].t = "Eof"})

\* C22: whenever tokenize succeeds, the token sequence it returns holds
\* exactly one end-of-input token, and that token is its last element.
C22_OneEof ==
    (operation.op = "tokenize" /\ returned # NotReturned /\ returned.r.ok) =>
        /\ Len(returned.r.v) >= 1
        /\ returned.r.v[Len(returned.r.v)].t = "Eof"
        /\ EofCount(returned.r.v) = 1

\* the text `a//` + newline (a comment and a newline end it) has been
\* tokenized
C22_Witness ==
    /\ operation.op = "tokenize" /\ operation.text = <<"a", "/", "/", "\n">>
    /\ returned # NotReturned /\ returned.r.ok
    /\ returned.r.v = <<Token_Identifier("a"), Token("Newline"), Token("Eof")>>

\* C23: parse terminates on every token sequence that ends in end-of-input
\* and returns a Program or a parse failure: no script is rejected in any
\* other way, and the scripts that end right after an opening `(` or `[` are
\* rejected with a ParseError.
C23_ParseReturns ==
    /\ phase = "rejected" => result \in {"LexError", "ParseError"}
    /\ (input.name \in {"open_paren", "open_bracket"} /\ phase \notin {"source", "tokens"}) =>
           (phase = "rejected" /\ result = "ParseError")

\* C24: in the lean interpreter `time` reads i for every statement of
\* iteration i of a repeat body, those after a nested repeat included: when
\* the nested_repeat program is over, a and c both hold 1, the number of the
\* last iteration of the outer loop, and b holds 2, that of the inner one.
C24_RepeatTime ==
    (input.variant = "lean" /\ input.name = "nested_repeat" /\ phase = "done") =>
        /\ result = "Ok"
        /\ Lookup("a").ok /\ Lookup("a").v = Value_Number(F64(1))
        /\ Lookup("b").ok /\ Lookup("b").v = Value_Number(F64(2))
        /\ Lookup("c").ok /\ Lookup("c").v = Value_Number(F64(1))

\* the frames the variable holds, when it holds a Frames value
HoldsFrames(it, name, frames) ==
    /\ LookupIn(it, name).ok
    /\ LookupIn(it, name).v = Value_Frames(frames)

\* the add_frame calls of the add_frame program on fs, which starts empty:
\* after k of them fs holds the k frames in call order
AddFrameFromEmpty ==
    (input.variant = "lean" /\ input.name = "add_frame") =>
        /\ (phase = "program" /\ pc = 5) =>
               HoldsFrames(interpreter, "fs", <<Lookup("a").v.f>>)
        /\ (phase = "program" /\ pc >= 6) \/ phase = "done" =>
               HoldsFrames(interpreter, "fs", <<Lookup("a").v.f, Lookup("b").v.f>>)

\* C25: in the lean interpreter every executed add_frame(arr, f) appends the
\* value of f to the frames of arr and keeps those already there: fs, which
\* starts empty, holds a and then a, b; and g, declared as `frames g = [a]`,
\* holds a, b after add_frame(g, b).
C25_AddFrame ==
    /\ AddFrameFromEmpty
    /\ (input.variant = "lean" /\ input.name = "add_frame" /\ phase = "done") =>
           /\ result = "Ok"
           /\ HoldsFrames(interpreter, "g", <<Lookup("a").v.f, Lookup("b").v.f>>)

\* C26: in the full interpreter an expression statement never ends the
\* enclosing block or loop early: when the expression_statements program is
\* over, the body of `repeat 3 times` has run three times (a is 3), the
\* statement after abs(0) in it has run (b is 1), and so has the one after
\* abs(0) in the if block (c is 1).
C26_ExpressionStatement ==
    (input.variant = "full" /\ input.name = "expression_statements" /\ phase = "done") =>
        /\ result = "Ok"
        /\ Lookup("a").ok /\ Lookup("a").v = Value_Number(F64(3))
        /\ Lookup("b").ok /\ Lookup("b").v = Value_Number(F64(1))
        /\ Lookup("c").ok /\ Lookup("c").v = Value_Number(F64(1))

\* C27: when a statement of a generator body fails at some pixel, the
\* evaluation fails and the interpreter's environment afterwards is the one
\* that was active before the generator began; the event entry points the
\* host calls later then work on the global scope, the only one there is.
C27_ScopeDiscarded ==
    [][/\ (DeclaresGenerator /\ input.variant = "full" /\ phase' = "done") =>
              /\ result' # "Ok"
              /\ interpreter'.environment = interpreter.environment
       /\ (input.name = "failing_generator" /\ phase = "done") =>
              Len(interpreter'.environment) = 1]_vars

\* statement pc declares a variable from `evolve(W, H) from p { body }`
DeclaresEvolve ==
    /\ AtStatement /\ input.variant = "full"
    /\ program[pc].kind = "VariableDeclaration"
    /\ program[pc].value.kind = "CellularGenerator"

PixelsBegun(log) == Cardinality({i \in DOMAIN log : log[i].ev = "pixel_begin"})

\* C28: in `evolve(W, H) from p { body }` every pixel's body reads under p
\* the Frame p was bound to when the generator started, whatever the bodies
\* of earlier pixels did to the name: in the evolve program, whose body
\* returns the pixel of p at its position and then redeclares p as all on,
\* q is the copy of p = [1, 0] and p is bound as before.  If p is unbound or
\* no Frame, the evaluation fails with RuntimeError and no pixel body has
\* run.
C28_Evolve ==
    [][DeclaresEvolve =>
           LET p == Lookup(program[pc].value.prev_var)
           IN IF p.ok /\ p.v.t = "Frame"
              THEN input.name = "evolve" =>
                       /\ result' = "None"
                       /\ PixelsBegun(interpreter'.log) = 2
                       /\ LookupIn(interpreter', "q") = p
                       /\ LookupIn(interpreter', "p") = p
              ELSE /\ result' = "RuntimeError" /\ phase' = "done"
                   /\ PixelsBegun(interpreter'.log) = 0
                   /\ StatementsRun(interpreter'.log) = 1
                   /\ interpreter'.environment = interpreter.environment]_vars

\* the evolve program is over: q is the frame [1, 0] that p held
C28_Witness ==
    /\ input.name = "evolve" /\ phase = "done" /\ result = "Ok"
    /\ Lookup("q").ok
    /\ Lookup("q").v = Value_Frame([width |-> 2, height |-> 1, pixels |-> <<<<TRUE, FALSE>>>>])
    /\ Lookup("p") = Lookup("q")

\* the step is the command `op`
Command(op) == operation'.n = operation.n + 1 /\ operation'.op = op

\* C29: `stop` removes only the PID record and keeps the saved current-file
\* path, and a `restart` given right after a successful `stop` succeeds and
\* launches a GUI process for the saved file again.
C29_RestartAfterStop ==
    [][/\ (Command("stop") /\ returned'.r = "Ok") =>
              /\ daemon'.daemon_pid = <<>>
              /\ daemon'.current_txt = daemon.current_txt
       /\ (/\ operation.op = "stop" /\ returned.r = "Ok" /\ daemon.current_txt # <<>>
           /\ Command("restart")) =>
              /\ returned'.r = "Ok"
              /\ \E p \in daemon'.processes :
                     /\ p.file = daemon.current_txt[1]
                     /\ daemon'.daemon_pid = <<p.pid>>]_vars

\* C30: a `start g` rejected because an instance is already running leaves
\* the persisted daemon state unchanged: current.txt and daemon.pid still
\* describe the running instance.
C30_RejectedStart ==
    [][(Command("start") /\ is_daemon_running(daemon) /\ returned'.r = "Err") =>
           /\ daemon'.current_txt = daemon.current_txt
           /\ daemon'.daemon_pid = daemon.daemon_pid
           /\ daemon'.processes = daemon.processes]_vars

====
